---- MODULE Spec2Model ----
(***************************************************************************)
(* Blood report analyzer (src/app.py): the report text analysis pipeline   *)
(* (extract_text_from_file, analyze_blood_report, the specialist           *)
(* recommendation of upload_report) and the symptom matcher                *)
(* (recommend_tests), over the static tables of the application.           *)
(*                                                                         *)
(* Texts are sequences of one-character strings.  A Python float is        *)
(* modelled by the exact decimal number its token denotes: ip are the      *)
(* digits of the integer part without leading zeros, fp the digits of the  *)
(* fraction without trailing zeros.  The two agree on every comparison     *)
(* with a table bound unless the token has more than 15 significant digits *)
(* and lies within one unit in the last place of the bound; the texts      *)
(* below contain no such token.                                            *)
(***************************************************************************)
EXTENDS Integers, Sequences, FiniteSets, TLC

VARIABLES text, analysis, last_call, file, symptoms, recommended_tests,
          session, users, reports, uploads, response, recommended_doctors,
          tables, previous, calls, locals, admins

vars == <<text, analysis, last_call, file, symptoms, recommended_tests,
          session, users, reports, uploads, response, recommended_doctors,
          tables, previous, calls, locals, admins>>

webVars == <<session, users, reports, uploads, response, recommended_doctors>>

reportVars == <<text, analysis, file>>

symptomVars == <<symptoms, recommended_tests>>

(* ---------------- bounds ---------------- *)
MaxFrags == 4

MaxParts == 2

MaxSymptomFrags == 3

MaxUploadParts == 1

MaxReports == 1

MaxAnalyses == 2

MaxAdmins == 2

(* ---------------- characters ---------------- *)
Digits == <<"0", "1", "2", "3", "4", "5", "6", "7", "8", "9">>

IsDigit(c) == \E i \in 1..10 : Digits[i] = c

DigitVal(c) == (CHOOSE i \in 1..10 : Digits[i] = c) - 1

IsSpace(c) == c \in {" ", "\t", "\n", "\r"}

IsSep(c) == c = ":" \/ IsSpace(c)

UpperCase ==
  <<"A", "B", "C", "D", "E", "F", "G", "H", "I", "J", "K", "L", "M",
    "N", "O", "P", "Q", "R", "S", "T", "U", "V", "W", "X", "Y", "Z">>

LowerCase ==
  <<"a", "b", "c", "d", "e", "f", "g", "h", "i", "j", "k", "l", "m",
    "n", "o", "p", "q", "r", "s", "t", "u", "v", "w", "x", "y", "z">>

IsUpper(c) == \E i \in 1..26 : UpperCase[i] = c

\* str.lower() forgotten
lower_identity(s) == s

\* str.lower()
lower(s) ==
  [i \in 1..Len(s) |->
     IF IsUpper(s[i])
     THEN LowerCase[CHOOSE k \in 1..26 : UpperCase[k] = s[i]]
     ELSE s[i]]

\* str.endswith
endswith(s, suffix) ==
  /\ Len(suffix) <= Len(s)
  /\ SubSeq(s, Len(s) - Len(suffix) + 1, Len(s)) = suffix

(* ---------------- decimal numbers ---------------- *)
Dec(ip, fp) == [ip |-> ip, fp |-> fp]

RECURSIVE StripLeadingZeros(_)
StripLeadingZeros(ds) ==
  IF ds # <<>> /\ Head(ds) = 0 THEN StripLeadingZeros(Tail(ds)) ELSE ds

RECURSIVE StripTrailingZeros(_)
StripTrailingZeros(ds) ==
  IF ds # <<>> /\ ds[Len(ds)] = 0
  THEN StripTrailingZeros(SubSeq(ds, 1, Len(ds) - 1)) ELSE ds

RECURSIVE LexLess(_, _)
LexLess(a, b) ==
  IF a = <<>> THEN b # <<>>
  ELSE IF b = <<>> THEN FALSE
  ELSE IF Head(a) # Head(b) THEN Head(a) < Head(b)
  ELSE LexLess(Tail(a), Tail(b))

\* a < b on floats
Less(a, b) ==
  IF Len(a.ip) # Len(b.ip) THEN Len(a.ip) < Len(b.ip)
  ELSE IF a.ip # b.ip THEN LexLess(a.ip, b.ip)
  ELSE LexLess(a.fp, b.fp)

ValueError == [raised |-> TRUE, value |-> Dec(<<>>, <<>>)]

\* float(s) for a token of digits and dots; anything else raises ValueError
float(s) ==
  LET dots == {i \in 1..Len(s) : s[i] = "."}
      ok == /\ \A i \in 1..Len(s) : IsDigit(s[i]) \/ s[i] = "."
            /\ Cardinality(dots) <= 1
            /\ \E i \in 1..Len(s) : IsDigit(s[i])
      d == IF dots = {} THEN Len(s) + 1 ELSE CHOOSE i \in dots : TRUE
  IN IF ~ok THEN ValueError
     ELSE [raised |-> FALSE,
           value |-> Dec(StripLeadingZeros([i \in 1..(d - 1) |-> DigitVal(s[i])]),
                         StripTrailingZeros([i \in 1..(Len(s) - d) |->
                                               DigitVal(s[d + i])]))]

(* ---------------- reference data ---------------- *)
reference_ranges ==
  << [param |-> "hemoglobin", chars |-> <<"h", "e", "m", "o", "g", "l", "o", "b", "i", "n">>,
      min |-> Dec(<<1, 3>>, <<5>>), max |-> Dec(<<1, 7>>, <<5>>), unit |-> "g/dL",
      explanation |-> "Low hemoglobin may indicate anemia."],
     [param |-> "rbc", chars |-> <<"r", "b", "c">>,
      min |-> Dec(<<4>>, <<7>>), max |-> Dec(<<6>>, <<1>>), unit |-> "million cells/mcL",
      explanation |-> "Abnormal RBC count may suggest anemia or polycythemia."],
     [param |-> "wbc", chars |-> <<"w", "b", "c">>,
      min |-> Dec(<<4, 5, 0, 0>>, <<>>), max |-> Dec(<<1, 1, 0, 0, 0>>, <<>>), unit |-> "cells/mcL",
      explanation |-> "High WBC can indicate infection or inflammation."],
     [param |-> "platelets", chars |-> <<"p", "l", "a", "t", "e", "l", "e", "t", "s">>,
      min |-> Dec(<<1, 5, 0, 0, 0, 0>>, <<>>), max |-> Dec(<<4, 5, 0, 0, 0, 0>>, <<>>), unit |-> "platelets/mcL",
      explanation |-> "Low platelets may lead to bleeding problems."],
     [param |-> "glucose", chars |-> <<"g", "l", "u", "c", "o", "s", "e">>,
      min |-> Dec(<<7, 0>>, <<>>), max |-> Dec(<<1, 0, 0>>, <<>>), unit |-> "mg/dL",
      explanation |-> "High glucose levels can indicate diabetes."],
     [param |-> "cholesterol_total", chars |-> <<"c", "h", "o", "l", "e", "s", "t", "e", "r", "o", "l", "_", "t", "o", "t", "a", "l">>,
      min |-> Dec(<<1, 2, 5>>, <<>>), max |-> Dec(<<2, 0, 0>>, <<>>), unit |-> "mg/dL",
      explanation |-> "High cholesterol increases risk of heart disease."],
     [param |-> "hdl", chars |-> <<"h", "d", "l">>,
      min |-> Dec(<<4, 0>>, <<>>), max |-> Dec(<<6, 0>>, <<>>), unit |-> "mg/dL",
      explanation |-> "Low HDL can increase heart disease risk."],
     [param |-> "ldl", chars |-> <<"l", "d", "l">>,
      min |-> Dec(<<>>, <<>>), max |-> Dec(<<1, 0, 0>>, <<>>), unit |-> "mg/dL",
      explanation |-> "High LDL is bad for cardiovascular health."],
     [param |-> "triglycerides", chars |-> <<"t", "r", "i", "g", "l", "y", "c", "e", "r", "i", "d", "e", "s">>,
      min |-> Dec(<<>>, <<>>), max |-> Dec(<<1, 5, 0>>, <<>>), unit |-> "mg/dL",
      explanation |-> "High triglycerides may increase heart disease risk."],
     [param |-> "creatinine", chars |-> <<"c", "r", "e", "a", "t", "i", "n", "i", "n", "e">>,
      min |-> Dec(<<>>, <<6>>), max |-> Dec(<<1>>, <<3>>), unit |-> "mg/dL",
      explanation |-> "Abnormal creatinine may indicate kidney issues."],
     [param |-> "urea", chars |-> <<"u", "r", "e", "a">>,
      min |-> Dec(<<7>>, <<>>), max |-> Dec(<<2, 0>>, <<>>), unit |-> "mg/dL",
      explanation |-> "High urea may indicate kidney dysfunction."],
     [param |-> "bilirubin_total", chars |-> <<"b", "i", "l", "i", "r", "u", "b", "i", "n", "_", "t", "o", "t", "a", "l">>,
      min |-> Dec(<<>>, <<3>>), max |-> Dec(<<1>>, <<2>>), unit |-> "mg/dL",
      explanation |-> "High bilirubin can indicate liver issues."],
     [param |-> "ast", chars |-> <<"a", "s", "t">>,
      min |-> Dec(<<1, 0>>, <<>>), max |-> Dec(<<4, 0>>, <<>>), unit |-> "U/L",
      explanation |-> "High AST may indicate liver damage."],
     [param |-> "alt", chars |-> <<"a", "l", "t">>,
      min |-> Dec(<<7>>, <<>>), max |-> Dec(<<5, 6>>, <<>>), unit |-> "U/L",
      explanation |-> "High ALT may indicate liver damage."],
     [param |-> "vitamin_b12", chars |-> <<"v", "i", "t", "a", "m", "i", "n", "_", "b", "1", "2">>,
      min |-> Dec(<<2, 0, 0>>, <<>>), max |-> Dec(<<9, 0, 0>>, <<>>), unit |-> "pg/mL",
      explanation |-> "Low B12 can lead to fatigue and anemia."],
     [param |-> "vitamin_d", chars |-> <<"v", "i", "t", "a", "m", "i", "n", "_", "d">>,
      min |-> Dec(<<3, 0>>, <<>>), max |-> Dec(<<1, 0, 0>>, <<>>), unit |-> "ng/mL",
      explanation |-> "Low vitamin D may cause bone issues."],
     [param |-> "thyroid_tsh", chars |-> <<"t", "h", "y", "r", "o", "i", "d", "_", "t", "s", "h">>,
      min |-> Dec(<<>>, <<4>>), max |-> Dec(<<4>>, <<>>), unit |-> "mIU/L",
      explanation |-> "High TSH may indicate hypothyroidism."],
     [param |-> "thyroid_t3", chars |-> <<"t", "h", "y", "r", "o", "i", "d", "_", "t", "3">>,
      min |-> Dec(<<8, 0>>, <<>>), max |-> Dec(<<2, 0, 0>>, <<>>), unit |-> "ng/dL",
      explanation |-> "Abnormal T3 may indicate thyroid disorder."],
     [param |-> "thyroid_t4", chars |-> <<"t", "h", "y", "r", "o", "i", "d", "_", "t", "4">>,
      min |-> Dec(<<5>>, <<>>), max |-> Dec(<<1, 2>>, <<>>), unit |-> "µg/dL",
      explanation |-> "Abnormal T4 may indicate thyroid disorder."],
     [param |-> "crp", chars |-> <<"c", "r", "p">>,
      min |-> Dec(<<>>, <<>>), max |-> Dec(<<1, 0>>, <<>>), unit |-> "mg/L",
      explanation |-> "High CRP may indicate inflammation or infection."] >>

\* the mapping cut down to its first specialty
doctor_mapping_hematologist ==
  << [doc |-> "Hematologist",
      chars |-> <<"H", "e", "m", "a", "t", "o", "l", "o", "g", "i", "s", "t">>,
      params |-> << "hemoglobin", "rbc", "wbc", "platelets", "vitamin_b12", "iron" >>] >>

doctor_mapping ==
  << [doc |-> "Hematologist",
      chars |-> <<"H", "e", "m", "a", "t", "o", "l", "o", "g", "i", "s", "t">>,
      params |-> << "hemoglobin", "rbc", "wbc", "platelets", "vitamin_b12", "iron" >>],
     [doc |-> "Endocrinologist",
      chars |-> <<"E", "n", "d", "o", "c", "r", "i", "n", "o", "l", "o", "g", "i", "s", "t">>,
      params |-> << "glucose", "thyroid_tsh", "thyroid_t3", "thyroid_t4", "vitamin_d", "insulin" >>],
     [doc |-> "Cardiologist",
      chars |-> <<"C", "a", "r", "d", "i", "o", "l", "o", "g", "i", "s", "t">>,
      params |-> << "cholesterol_total", "hdl", "ldl", "triglycerides", "blood_pressure" >>],
     [doc |-> "Nephrologist",
      chars |-> <<"N", "e", "p", "h", "r", "o", "l", "o", "g", "i", "s", "t">>,
      params |-> << "creatinine", "urea", "electrolytes", "urine_protein" >>],
     [doc |-> "Hepatologist",
      chars |-> <<"H", "e", "p", "a", "t", "o", "l", "o", "g", "i", "s", "t">>,
      params |-> << "bilirubin_total", "ast", "alt", "alp" >>],
     [doc |-> "Rheumatologist",
      chars |-> <<"R", "h", "e", "u", "m", "a", "t", "o", "l", "o", "g", "i", "s", "t">>,
      params |-> << "crp", "rheumatoid_factor", "uric_acid" >>],
     [doc |-> "General Physician",
      chars |-> <<"G", "e", "n", "e", "r", "a", "l", " ", "P", "h", "y", "s", "i", "c", "i", "a", "n">>,
      params |-> << "cbc", "vitamin_d", "urinalysis", "glucose" >>] >>

symptom_to_tests ==
  << [keyword |-> <<"f", "a", "t", "i", "g", "u", "e">>,
      tests |-> << "Complete Blood Count (CBC)", "Thyroid Function Test", "Vitamin B12 Test", "Vitamin D Test", "CRP Test" >>],
     [keyword |-> <<"f", "e", "v", "e", "r">>,
      tests |-> << "CBC", "Blood Culture", "Malaria Test", "CRP Test" >>],
     [keyword |-> <<"w", "e", "i", "g", "h", "t", " ", "l", "o", "s", "s">>,
      tests |-> << "Thyroid Function Test", "Glucose Test", "CBC", "Vitamin B12 Test" >>],
     [keyword |-> <<"w", "e", "a", "k", "n", "e", "s", "s">>,
      tests |-> << "CBC", "Iron Test", "Vitamin B12 Test", "Thyroid Function Test" >>],
     [keyword |-> <<"h", "e", "a", "d", "a", "c", "h", "e">>,
      tests |-> << "Blood Pressure Test", "CBC", "Glucose Test" >>],
     [keyword |-> <<"j", "o", "i", "n", "t", " ", "p", "a", "i", "n">>,
      tests |-> << "CRP Test", "Rheumatoid Factor", "Uric Acid Test" >>],
     [keyword |-> <<"y", "e", "l", "l", "o", "w", "i", "n", "g", " ", "o", "f", " ", "e", "y", "e", "s">>,
      tests |-> << "Liver Function Test", "Bilirubin Test", "AST", "ALT" >>],
     [keyword |-> <<"s", "w", "e", "l", "l", "i", "n", "g">>,
      tests |-> << "Kidney Function Test", "Creatinine", "Urea", "Electrolytes Test" >>],
     [keyword |-> <<"h", "i", "g", "h", " ", "c", "h", "o", "l", "e", "s", "t", "e", "r", "o", "l">>,
      tests |-> << "Lipid Profile", "Cholesterol Test", "HDL", "LDL", "Triglycerides" >>],
     [keyword |-> <<"d", "i", "a", "b", "e", "t", "e", "s", " ", "r", "i", "s", "k">>,
      tests |-> << "Glucose Test", "HbA1c Test", "Insulin Test" >>],
     [keyword |-> <<"s", "h", "o", "r", "t", "n", "e", "s", "s", " ", "o", "f", " ", "b", "r", "e", "a", "t", "h">>,
      tests |-> << "CBC", "Chest X-ray", "Oxygen Saturation", "Electrolytes Test" >>],
     [keyword |-> <<"p", "a", "l", "p", "i", "t", "a", "t", "i", "o", "n", "s">>,
      tests |-> << "ECG", "CBC", "Thyroid Function Test", "Electrolytes Test" >>],
     [keyword |-> <<"d", "i", "z", "z", "i", "n", "e", "s", "s">>,
      tests |-> << "CBC", "Blood Pressure Test", "Glucose Test", "Electrolytes Test" >>],
     [keyword |-> <<"n", "a", "u", "s", "e", "a">>,
      tests |-> << "Liver Function Test", "Renal Function Test", "Electrolytes Test" >>],
     [keyword |-> <<"v", "o", "m", "i", "t", "i", "n", "g">>,
      tests |-> << "CBC", "Liver Function Test", "Renal Function Test", "Electrolytes Test" >>],
     [keyword |-> <<"a", "b", "d", "o", "m", "i", "n", "a", "l", " ", "p", "a", "i", "n">>,
      tests |-> << "Liver Function Test", "Ultrasound Abdomen", "Amylase", "Lipase" >>],
     [keyword |-> <<"d", "i", "a", "r", "r", "h", "e", "a">>,
      tests |-> << "CBC", "Stool Culture", "Electrolytes Test" >>],
     [keyword |-> <<"c", "o", "n", "s", "t", "i", "p", "a", "t", "i", "o", "n">>,
      tests |-> << "CBC", "Thyroid Function Test", "Vitamin D Test" >>],
     [keyword |-> <<"b", "l", "u", "r", "r", "e", "d", " ", "v", "i", "s", "i", "o", "n">>,
      tests |-> << "Blood Glucose Test", "CBC", "Eye Exam", "Blood Pressure Test" >>],
     [keyword |-> <<"c", "o", "l", "d", " ", "h", "a", "n", "d", "s", " ", "a", "n", "d", " ", "f", "e", "e", "t">>,
      tests |-> << "CBC", "Iron Test", "Vitamin B12 Test", "Thyroid Function Test" >>],
     [keyword |-> <<"s", "l", "e", "e", "p", " ", "d", "i", "s", "t", "u", "r", "b", "a", "n", "c", "e", "s">>,
      tests |-> << "Thyroid Function Test", "Vitamin D Test", "CBC", "CRP Test" >>],
     [keyword |-> <<"a", "n", "x", "i", "e", "t", "y">>,
      tests |-> << "Thyroid Function Test", "CBC", "Vitamin B12 Test", "Electrolytes Test" >>],
     [keyword |-> <<"d", "e", "p", "r", "e", "s", "s", "i", "o", "n">>,
      tests |-> << "Vitamin D Test", "CBC", "Thyroid Function Test", "Vitamin B12 Test" >>],
     [keyword |-> <<"h", "a", "i", "r", " ", "l", "o", "s", "s">>,
      tests |-> << "Thyroid Function Test", "Iron Test", "Vitamin D Test", "Vitamin B12 Test" >>],
     [keyword |-> <<"s", "k", "i", "n", " ", "r", "a", "s", "h">>,
      tests |-> << "CBC", "Allergy Test", "CRP Test", "Liver Function Test" >>],
     [keyword |-> <<"i", "t", "c", "h", "i", "n", "g">>,
      tests |-> << "Liver Function Test", "Allergy Test", "CBC", "Renal Function Test" >>],
     [keyword |-> <<"e", "a", "s", "y", " ", "b", "r", "u", "i", "s", "i", "n", "g">>,
      tests |-> << "Platelet Count", "CBC", "Vitamin K Test", "Coagulation Profile" >>],
     [keyword |-> <<"b", "l", "e", "e", "d", "i", "n", "g", " ", "g", "u", "m", "s">>,
      tests |-> << "Platelet Count", "CBC", "Vitamin K Test", "Coagulation Profile" >>],
     [keyword |-> <<"f", "r", "e", "q", "u", "e", "n", "t", " ", "i", "n", "f", "e", "c", "t", "i", "o", "n", "s">>,
      tests |-> << "WBC Count", "CBC", "Immunoglobulin Test", "Vitamin D Test" >>],
     [keyword |-> <<"s", "l", "o", "w", " ", "w", "o", "u", "n", "d", " ", "h", "e", "a", "l", "i", "n", "g">>,
      tests |-> << "Glucose Test", "CBC", "Vitamin C Test", "HbA1c Test" >>],
     [keyword |-> <<"c", "h", "e", "s", "t", " ", "p", "a", "i", "n">>,
      tests |-> << "ECG", "Cardiac Enzymes", "CBC", "Lipid Profile" >>],
     [keyword |-> <<"h", "i", "g", "h", " ", "b", "l", "o", "o", "d", " ", "p", "r", "e", "s", "s", "u", "r", "e">>,
      tests |-> << "Blood Pressure Test", "Electrolytes Test", "CBC", "Renal Function Test" >>],
     [keyword |-> <<"l", "o", "w", " ", "b", "l", "o", "o", "d", " ", "p", "r", "e", "s", "s", "u", "r", "e">>,
      tests |-> << "CBC", "Electrolytes Test", "Renal Function Test", "Glucose Test" >>],
     [keyword |-> <<"f", "r", "e", "q", "u", "e", "n", "t", " ", "u", "r", "i", "n", "a", "t", "i", "o", "n">>,
      tests |-> << "Glucose Test", "Renal Function Test", "CBC", "Urinalysis" >>],
     [keyword |-> <<"t", "h", "i", "r", "s", "t">>,
      tests |-> << "Glucose Test", "CBC", "Electrolytes Test", "Renal Function Test" >>],
     [keyword |-> <<"b", "a", "c", "k", " ", "p", "a", "i", "n">>,
      tests |-> << "CBC", "Renal Function Test", "CRP Test", "X-ray Spine" >>],
     [keyword |-> <<"m", "u", "s", "c", "l", "e", " ", "c", "r", "a", "m", "p", "s">>,
      tests |-> << "Electrolytes Test", "CBC", "Vitamin D Test", "Magnesium Test" >>],
     [keyword |-> <<"n", "u", "m", "b", "n", "e", "s", "s">>,
      tests |-> << "CBC", "Vitamin B12 Test", "Electrolytes Test", "Thyroid Function Test" >>],
     [keyword |-> <<"t", "i", "n", "g", "l", "i", "n", "g">>,
      tests |-> << "CBC", "Vitamin B12 Test", "Electrolytes Test", "Thyroid Function Test" >>],
     [keyword |-> <<"s", "w", "o", "l", "l", "e", "n", " ", "l", "y", "m", "p", "h", " ", "n", "o", "d", "e", "s">>,
      tests |-> << "CBC", "Blood Culture", "CRP Test", "Ultrasound" >>],
     [keyword |-> <<"l", "o", "s", "s", " ", "o", "f", " ", "a", "p", "p", "e", "t", "i", "t", "e">>,
      tests |-> << "CBC", "Liver Function Test", "Thyroid Function Test", "Vitamin B12 Test" >>],
     [keyword |-> <<"v", "o", "m", "i", "t", "i", "n", "g", " ", "b", "l", "o", "o", "d">>,
      tests |-> << "CBC", "Coagulation Profile", "Liver Function Test", "Endoscopy" >>],
     [keyword |-> <<"b", "l", "o", "o", "d", " ", "i", "n", " ", "s", "t", "o", "o", "l">>,
      tests |-> << "CBC", "Coagulation Profile", "Stool Occult Blood Test", "Colonoscopy" >>],
     [keyword |-> <<"a", "b", "n", "o", "r", "m", "a", "l", " ", "b", "l", "e", "e", "d", "i", "n", "g">>,
      tests |-> << "CBC", "Coagulation Profile", "Platelet Count", "Vitamin K Test" >>],
     [keyword |-> <<"w", "e", "i", "g", "h", "t", " ", "g", "a", "i", "n">>,
      tests |-> << "Thyroid Function Test", "CBC", "Lipid Profile", "Glucose Test" >>],
     [keyword |-> <<"h", "a", "i", "r", " ", "t", "h", "i", "n", "n", "i", "n", "g">>,
      tests |-> << "Thyroid Function Test", "Iron Test", "Vitamin B12 Test", "Vitamin D Test" >>],
     [keyword |-> <<"c", "o", "l", "d", " ", "i", "n", "t", "o", "l", "e", "r", "a", "n", "c", "e">>,
      tests |-> << "Thyroid Function Test", "CBC", "Vitamin D Test", "Iron Test" >>],
     [keyword |-> <<"h", "e", "a", "t", " ", "i", "n", "t", "o", "l", "e", "r", "a", "n", "c", "e">>,
      tests |-> << "Thyroid Function Test", "CBC", "Glucose Test", "Electrolytes Test" >>],
     [keyword |-> <<"b", "r", "i", "t", "t", "l", "e", " ", "n", "a", "i", "l", "s">>,
      tests |-> << "Iron Test", "Vitamin B12 Test", "Zinc Test", "CBC" >>],
     [keyword |-> <<"m", "o", "u", "t", "h", " ", "u", "l", "c", "e", "r", "s">>,
      tests |-> << "CBC", "Vitamin B12 Test", "Folate Test", "Iron Test" >>],
     [keyword |-> <<"f", "r", "e", "q", "u", "e", "n", "t", " ", "h", "e", "a", "d", "a", "c", "h", "e", "s">>,
      tests |-> << "Blood Pressure Test", "CBC", "Glucose Test", "Thyroid Function Test" >>],
     [keyword |-> <<"b", "r", "a", "i", "n", " ", "f", "o", "g">>,
      tests |-> << "Vitamin B12 Test", "Thyroid Function Test", "CBC", "Glucose Test" >>],
     [keyword |-> <<"c", "o", "l", "d", " ", "s", "o", "r", "e", "s">>,
      tests |-> << "CBC", "Viral PCR", "Vitamin D Test" >>],
     [keyword |-> <<"j", "o", "i", "n", "t", " ", "s", "t", "i", "f", "f", "n", "e", "s", "s">>,
      tests |-> << "CRP Test", "Rheumatoid Factor", "Uric Acid Test", "X-ray Joint" >>],
     [keyword |-> <<"s", "w", "o", "l", "l", "e", "n", " ", "f", "e", "e", "t">>,
      tests |-> << "Renal Function Test", "CBC", "Electrolytes Test", "Liver Function Test" >>],
     [keyword |-> <<"c", "h", "r", "o", "n", "i", "c", " ", "c", "o", "u", "g", "h">>,
      tests |-> << "CBC", "Chest X-ray", "Sputum Culture", "CRP Test" >>],
     [keyword |-> <<"s", "h", "o", "r", "t", "-", "t", "e", "r", "m", " ", "m", "e", "m", "o", "r", "y", " ", "l", "o", "s", "s">>,
      tests |-> << "Vitamin B12 Test", "Thyroid Function Test", "CBC", "Glucose Test" >>],
     [keyword |-> <<"d", "i", "f", "f", "i", "c", "u", "l", "t", "y", " ", "c", "o", "n", "c", "e", "n", "t", "r", "a", "t", "i", "n", "g">>,
      tests |-> << "Vitamin B12 Test", "Thyroid Function Test", "CBC", "Glucose Test" >>],
     [keyword |-> <<"f", "r", "e", "q", "u", "e", "n", "t", " ", "c", "o", "l", "d", "s">>,
      tests |-> << "WBC Count", "CBC", "Vitamin D Test", "Immunoglobulin Test" >>],
     [keyword |-> <<"s", "w", "e", "l", "l", "i", "n", "g", " ", "a", "r", "o", "u", "n", "d", " ", "e", "y", "e", "s">>,
      tests |-> << "Renal Function Test", "CBC", "Electrolytes Test", "Liver Function Test" >>],
     [keyword |-> <<"d", "a", "r", "k", " ", "u", "r", "i", "n", "e">>,
      tests |-> << "Liver Function Test", "Renal Function Test", "CBC", "Bilirubin Test" >>],
     [keyword |-> <<"p", "a", "l", "e", " ", "s", "k", "i", "n">>,
      tests |-> << "CBC", "Iron Test", "Vitamin B12 Test", "Folate Test" >>],
     [keyword |-> <<"y", "e", "l", "l", "o", "w", " ", "s", "k", "i", "n">>,
      tests |-> << "Liver Function Test", "Bilirubin Test", "AST", "ALT" >>],
     [keyword |-> <<"a", "b", "d", "o", "m", "i", "n", "a", "l", " ", "b", "l", "o", "a", "t", "i", "n", "g">>,
      tests |-> << "Liver Function Test", "CBC", "Ultrasound Abdomen", "Amylase", "Lipase" >>],
     [keyword |-> <<"a", "c", "i", "d", " ", "r", "e", "f", "l", "u", "x">>,
      tests |-> << "CBC", "Liver Function Test", "Endoscopy", "H. Pylori Test" >>],
     [keyword |-> <<"h", "e", "a", "r", "t", "b", "u", "r", "n">>,
      tests |-> << "CBC", "Liver Function Test", "Endoscopy", "H. Pylori Test" >>],
     [keyword |-> <<"d", "i", "f", "f", "i", "c", "u", "l", "t", "y", " ", "s", "w", "a", "l", "l", "o", "w", "i", "n", "g">>,
      tests |-> << "CBC", "Endoscopy", "Thyroid Function Test", "Liver Function Test" >>],
     [keyword |-> <<"p", "e", "r", "s", "i", "s", "t", "e", "n", "t", " ", "d", "i", "a", "r", "r", "h", "e", "a">>,
      tests |-> << "CBC", "Stool Culture", "Electrolytes Test", "CBC" >>],
     [keyword |-> <<"p", "e", "r", "s", "i", "s", "t", "e", "n", "t", " ", "c", "o", "n", "s", "t", "i", "p", "a", "t", "i", "o", "n">>,
      tests |-> << "CBC", "Thyroid Function Test", "Vitamin D Test", "CBC" >>],
     [keyword |-> <<"e", "x", "c", "e", "s", "s", "i", "v", "e", " ", "s", "w", "e", "a", "t", "i", "n", "g">>,
      tests |-> << "CBC", "Thyroid Function Test", "Electrolytes Test", "Glucose Test" >>],
     [keyword |-> <<"s", "l", "o", "w", " ", "r", "e", "f", "l", "e", "x", "e", "s">>,
      tests |-> << "Vitamin B12 Test", "Electrolytes Test", "CBC", "Thyroid Function Test" >>],
     [keyword |-> <<"p", "o", "o", "r", " ", "c", "o", "o", "r", "d", "i", "n", "a", "t", "i", "o", "n">>,
      tests |-> << "Vitamin B12 Test", "Electrolytes Test", "CBC", "Thyroid Function Test" >>],
     [keyword |-> <<"d", "i", "f", "f", "i", "c", "u", "l", "t", "y", " ", "w", "a", "l", "k", "i", "n", "g">>,
      tests |-> << "Vitamin B12 Test", "Electrolytes Test", "CBC", "MRI Spine" >>],
     [keyword |-> <<"p", "e", "r", "s", "i", "s", "t", "e", "n", "t", " ", "c", "o", "u", "g", "h">>,
      tests |-> << "CBC", "Chest X-ray", "Sputum Culture", "CRP Test" >>],
     [keyword |-> <<"h", "o", "a", "r", "s", "e", "n", "e", "s", "s">>,
      tests |-> << "CBC", "Thyroid Function Test", "Liver Function Test", "Endoscopy" >>],
     [keyword |-> <<"s", "w", "o", "l", "l", "e", "n", " ", "t", "o", "n", "g", "u", "e">>,
      tests |-> << "CBC", "Vitamin B12 Test", "Iron Test", "Folate Test" >>],
     [keyword |-> <<"d", "r", "y", " ", "s", "k", "i", "n">>,
      tests |-> << "Vitamin D Test", "Thyroid Function Test", "CBC", "Iron Test" >>],
     [keyword |-> <<"i", "t", "c", "h", "y", " ", "e", "y", "e", "s">>,
      tests |-> << "Allergy Test", "CBC", "Vitamin D Test", "CRP Test" >>],
     [keyword |-> <<"b", "l", "u", "r", "r", "e", "d", " ", "v", "i", "s", "i", "o", "n", " ", "a", "t", " ", "n", "i", "g", "h", "t">>,
      tests |-> << "Glucose Test", "CBC", "Vitamin A Test", "Eye Exam" >>],
     [keyword |-> <<"t", "r", "e", "m", "o", "r", "s">>,
      tests |-> << "Thyroid Function Test", "CBC", "Electrolytes Test", "Vitamin B12 Test" >>],
     [keyword |-> <<"m", "u", "s", "c", "l", "e", " ", "w", "e", "a", "k", "n", "e", "s", "s">>,
      tests |-> << "Electrolytes Test", "CBC", "Vitamin D Test", "Magnesium Test" >>],
     [keyword |-> <<"m", "u", "s", "c", "l", "e", " ", "p", "a", "i", "n">>,
      tests |-> << "Electrolytes Test", "CBC", "Vitamin D Test", "CRP Test" >>],
     [keyword |-> <<"f", "r", "e", "q", "u", "e", "n", "t", " ", "u", "r", "i", "n", "a", "t", "i", "o", "n", " ", "a", "t", " ", "n", "i", "g", "h", "t">>,
      tests |-> << "Glucose Test", "CBC", "Renal Function Test", "Urinalysis" >>],
     [keyword |-> <<"s", "n", "o", "r", "i", "n", "g">>,
      tests |-> << "CBC", "Sleep Study", "Electrolytes Test", "Glucose Test" >>],
     [keyword |-> <<"d", "r", "y", " ", "m", "o", "u", "t", "h">>,
      tests |-> << "CBC", "Glucose Test", "Renal Function Test", "Electrolytes Test" >>],
     [keyword |-> <<"t", "h", "i", "r", "s", "t", "y", " ", "a", "l", "l", " ", "t", "h", "e", " ", "t", "i", "m", "e">>,
      tests |-> << "Glucose Test", "CBC", "Renal Function Test", "Electrolytes Test" >>],
     [keyword |-> <<"w", "e", "i", "g", "h", "t", " ", "f", "l", "u", "c", "t", "u", "a", "t", "i", "o", "n">>,
      tests |-> << "Thyroid Function Test", "CBC", "Glucose Test", "Lipid Profile" >>],
     [keyword |-> <<"f", "r", "e", "q", "u", "e", "n", "t", " ", "m", "o", "o", "d", " ", "s", "w", "i", "n", "g", "s">>,
      tests |-> << "Thyroid Function Test", "CBC", "Vitamin D Test", "Vitamin B12 Test" >>],
     [keyword |-> <<"n", "e", "r", "v", "o", "u", "s", "n", "e", "s", "s">>,
      tests |-> << "Thyroid Function Test", "CBC", "Electrolytes Test", "Vitamin B12 Test" >>],
     [keyword |-> <<"r", "a", "p", "i", "d", " ", "h", "e", "a", "r", "t", "b", "e", "a", "t">>,
      tests |-> << "ECG", "Thyroid Function Test", "CBC", "Electrolytes Test" >>],
     [keyword |-> <<"s", "l", "o", "w", " ", "h", "e", "a", "r", "t", "b", "e", "a", "t">>,
      tests |-> << "ECG", "Thyroid Function Test", "CBC", "Electrolytes Test" >>],
     [keyword |-> <<"c", "o", "l", "d", " ", "s", "w", "e", "a", "t">>,
      tests |-> << "CBC", "Glucose Test", "ECG", "Electrolytes Test" >>],
     [keyword |-> <<"c", "h", "e", "s", "t", " ", "t", "i", "g", "h", "t", "n", "e", "s", "s">>,
      tests |-> << "ECG", "CBC", "Cardiac Enzymes", "Lipid Profile" >>],
     [keyword |-> <<"f", "a", "i", "n", "t", "i", "n", "g">>,
      tests |-> << "CBC", "Glucose Test", "ECG", "Electrolytes Test" >>],
     [keyword |-> <<"n", "o", "s", "e", "b", "l", "e", "e", "d", "s">>,
      tests |-> << "CBC", "Platelet Count", "Coagulation Profile", "Vitamin K Test" >>],
     [keyword |-> <<"c", "o", "u", "g", "h", " ", "w", "i", "t", "h", " ", "b", "l", "o", "o", "d">>,
      tests |-> << "CBC", "Chest X-ray", "Sputum Culture", "Coagulation Profile" >>],
     [keyword |-> <<"s", "h", "o", "r", "t", "n", "e", "s", "s", " ", "o", "f", " ", "b", "r", "e", "a", "t", "h", " ", "o", "n", " ", "e", "x", "e", "r", "t", "i", "o", "n">>,
      tests |-> << "CBC", "Oxygen Saturation", "ECG", "Lipid Profile" >>],
     [keyword |-> <<"l", "e", "g", " ", "c", "r", "a", "m", "p", "s", " ", "a", "t", " ", "n", "i", "g", "h", "t">>,
      tests |-> << "Electrolytes Test", "Vitamin D Test", "CBC", "Magnesium Test" >>],
     [keyword |-> <<"f", "o", "o", "t", " ", "u", "l", "c", "e", "r", "s">>,
      tests |-> << "Glucose Test", "CBC", "Renal Function Test", "Vitamin C Test" >>],
     [keyword |-> <<"s", "w", "o", "l", "l", "e", "n", " ", "j", "o", "i", "n", "t", "s">>,
      tests |-> << "CRP Test", "Rheumatoid Factor", "Uric Acid Test", "X-ray Joint" >>],
     [keyword |-> <<"d", "i", "f", "f", "i", "c", "u", "l", "t", "y", " ", "c", "l", "i", "m", "b", "i", "n", "g", " ", "s", "t", "a", "i", "r", "s">>,
      tests |-> << "Vitamin D Test", "CBC", "Electrolytes Test", "Thyroid Function Test" >>],
     [keyword |-> <<"f", "r", "e", "q", "u", "e", "n", "t", " ", "t", "h", "i", "r", "s", "t">>,
      tests |-> << "Glucose Test", "CBC", "Renal Function Test", "Electrolytes Test" >>],
     [keyword |-> <<"d", "a", "r", "k", " ", "c", "i", "r", "c", "l", "e", "s", " ", "u", "n", "d", "e", "r", " ", "e", "y", "e", "s">>,
      tests |-> << "CBC", "Iron Test", "Vitamin B12 Test", "Vitamin D Test" >>],
     [keyword |-> <<"p", "a", "l", "e", " ", "l", "i", "p", "s">>,
      tests |-> << "CBC", "Iron Test", "Vitamin B12 Test", "Folate Test" >>] >>

(* ---------------- text extraction ---------------- *)
\* A document is its file name, the parts its extractor yields (the pages of
\* a PDF, the paragraphs of a document, the lines of an image or a text
\* file) and failAt, the point at which the extractor raises: 0 on opening,
\* k while yielding part k, beyond the last part never.
ImageExts == {<<".", "p", "n", "g">>, <<".", "j", "p", "g">>,
              <<".", "j", "p", "e", "g">>}

PdfExts == {<<".", "p", "d", "f">>}

DocExts == {<<".", "d", "o", "c">>, <<".", "d", "o", "c", "x">>}

TxtExts == {<<".", "t", "x", "t">>}

HasExt(filepath, exts) == \E e \in exts : endswith(lower(filepath), e)

Raises(doc) == doc.failAt <= Len(doc.parts)

\* no document: an upload without a file name
NoFile == [filename |-> <<>>, parts |-> <<>>, failAt |-> 0]

RECURSIVE Lines(_)
Lines(parts) ==
  IF parts = <<>> THEN <<>> ELSE Head(parts) \o <<"\n">> \o Lines(Tail(parts))

\* Image.open and pytesseract.image_to_string; open and f.read
ReadWhole(doc) ==
  IF Raises(doc) THEN [raised |-> TRUE, text |-> <<>>]
  ELSE [raised |-> FALSE, text |-> Lines(doc.parts)]

\* for page in pdf.pages: text += page_text + '\n' for a non-empty page_text
RECURSIVE PdfPages(_, _, _)
PdfPages(doc, k, acc) ==
  IF doc.failAt = 0 THEN [raised |-> TRUE, text |-> acc]
  ELSE IF k > Len(doc.parts) THEN [raised |-> FALSE, text |-> acc]
  ELSE IF doc.failAt = k THEN [raised |-> TRUE, text |-> acc]
  ELSE IF doc.parts[k] # <<>>
  THEN PdfPages(doc, k + 1, acc \o doc.parts[k] \o <<"\n">>)
  ELSE PdfPages(doc, k + 1, acc)

\* for para in doc.paragraphs: text += para.text + '\n'
RECURSIVE DocParagraphs(_, _, _)
DocParagraphs(doc, k, acc) ==
  IF doc.failAt = 0 THEN [raised |-> TRUE, text |-> acc]
  ELSE IF k > Len(doc.parts) THEN [raised |-> FALSE, text |-> acc]
  ELSE IF doc.failAt = k THEN [raised |-> TRUE, text |-> acc]
  ELSE DocParagraphs(doc, k + 1, acc \o doc.parts[k] \o <<"\n">>)

\* the except clause keeping what was accumulated
Try_keep(result) == result.text

\* try: ... except Exception: text = ''
Try(result) == IF result.raised THEN <<>> ELSE result.text

extract_text_from_file(filepath, doc) ==
  lower(IF HasExt(filepath, ImageExts) THEN Try(ReadWhole(doc))
        ELSE IF HasExt(filepath, PdfExts) THEN Try(PdfPages(doc, 1, <<>>))
        ELSE IF HasExt(filepath, DocExts)
        THEN Try(DocParagraphs(doc, 1, <<>>))
        ELSE IF HasExt(filepath, TxtExts) THEN Try(ReadWhole(doc))
        ELSE <<>>)

(* ---------------- regular expression search ---------------- *)
\* number of consecutive characters of [0-9] from position p on
RECURSIVE DigitRun(_, _)
DigitRun(t, p) ==
  IF p <= Len(t) /\ IsDigit(t[p]) THEN 1 + DigitRun(t, p + 1) ELSE 0

\* number of consecutive characters of [:\s] from position p on
RECURSIVE SepRun(_, _)
SepRun(t, p) ==
  IF p <= Len(t) /\ IsSep(t[p]) THEN 1 + SepRun(t, p + 1) ELSE 0

\* ([0-9]*\.?[0-9]+) at p, [0-9]* holding a digits: the position after the
\* group, or 0; on failure [0-9]* gives one digit back
RECURSIVE MatchNumber(_, _, _)
MatchNumber(t, p, a) ==
  LET q == p + a
      hasDot == q <= Len(t) /\ t[q] = "."
  IN IF hasDot /\ DigitRun(t, q + 1) >= 1 THEN q + 1 + DigitRun(t, q + 1)
     ELSE IF DigitRun(t, q) >= 1 THEN q + DigitRun(t, q)
     ELSE IF a = 0 THEN 0
     ELSE MatchNumber(t, p, a - 1)

NoMatch == [found |-> FALSE, group |-> <<>>]

\* [:\s]*(...) at p, [:\s]* holding k characters; on failure it gives one back
RECURSIVE MatchTail(_, _, _)
MatchTail(t, p, k) ==
  LET e == MatchNumber(t, p + k, DigitRun(t, p + k))
  IN IF e # 0 THEN [found |-> TRUE, group |-> SubSeq(t, p + k, e - 1)]
     ELSE IF k = 0 THEN NoMatch
     ELSE MatchTail(t, p, k - 1)

StartsWith(t, i, lit) ==
  /\ i + Len(lit) - 1 <= Len(t)
  /\ \A k \in 1..Len(lit) : t[i + k - 1] = lit[k]

\* number of consecutive characters outside [0-9] from position p on
RECURSIVE NonDigitRun(_, _)
NonDigitRun(t, p) ==
  IF p <= Len(t) /\ ~IsDigit(t[p]) THEN 1 + NonDigitRun(t, p + 1) ELSE 0

\* the pattern with \D* between the name and the number
MatchAt_anysep(name, t, i) ==
  IF StartsWith(t, i, name)
  THEN MatchTail(t, i + Len(name), NonDigitRun(t, i + Len(name)))
  ELSE NoMatch

\* the pattern rf"{param}[:\s]*([0-9]*\.?[0-9]+)" anchored at position i
MatchAt(name, t, i) ==
  IF StartsWith(t, i, name)
  THEN MatchTail(t, i + Len(name), SepRun(t, i + Len(name)))
  ELSE NoMatch

\* re.search: the match at the leftmost position where the pattern matches
SearchFrom(name, t, i) ==
  IF \E j \in i..Len(t) : MatchAt(name, t, j).found
  THEN MatchAt(name, t,
               CHOOSE j \in i..Len(t) :
                 /\ MatchAt(name, t, j).found
                 /\ \A k \in i..(j - 1) : ~MatchAt(name, t, k).found)
  ELSE NoMatch

\* the match at the rightmost position where the pattern matches
SearchBack(name, t, i) ==
  IF \E j \in 1..i : MatchAt(name, t, j).found
  THEN MatchAt(name, t,
               CHOOSE j \in 1..i :
                 /\ MatchAt(name, t, j).found
                 /\ \A k \in (j + 1)..i : ~MatchAt(name, t, k).found)
  ELSE NoMatch

re_search_last(name, t) == SearchBack(name, t, Len(t))

re_search(name, t) == SearchFrom(name, t, 1)

(* ---------------- analysis ---------------- *)
\* the boundaries taken as outside the range
Classify_exclusive(param, details, value) ==
  IF ~Less(details.min, value)
  THEN [status |-> "Abnormal",
        explanation |-> "Low " \o param \o ": may indicate "
                          \o details.explanation]
  ELSE IF ~Less(value, details.max)
  THEN [status |-> "Abnormal", explanation |-> details.explanation]
  ELSE [status |-> "Normal", explanation |-> "Within normal range."]

\* the low side answered with the reference explanation alone
Classify_lowverbatim(param, details, value) ==
  IF Less(value, details.min)
  THEN [status |-> "Abnormal", explanation |-> details.explanation]
  ELSE IF Less(details.max, value)
  THEN [status |-> "Abnormal", explanation |-> details.explanation]
  ELSE [status |-> "Normal", explanation |-> "Within normal range."]

\* status and explanation of a value against its reference range
Classify(param, details, value) ==
  IF Less(value, details.min)
  THEN [status |-> "Abnormal",
        explanation |-> "Low " \o param \o ": may indicate "
                          \o details.explanation]
  ELSE IF Less(details.max, value)
  THEN [status |-> "Abnormal", explanation |-> details.explanation]
  ELSE [status |-> "Normal", explanation |-> "Within normal range."]

Reading(details, value) ==
  [parameter |-> details.param,
   value |-> value,
   unit |-> details.unit,
   status |-> Classify(details.param, details, value).status,
   explanation |-> Classify(details.param, details, value).explanation]

\* the loop of analyze_blood_report from table entry n on
RECURSIVE AnalyzeFrom(_, _, _)
AnalyzeFrom(table, t, n) ==
  IF n > Len(table) THEN <<>>
  ELSE LET details == table[n]
           match == re_search(details.chars, t)
       IN IF match.found /\ ~float(match.group).raised
          THEN <<Reading(details, float(match.group).value)>>
                 \o AnalyzeFrom(table, t, n + 1)
          ELSE AnalyzeFrom(table, t, n + 1)

\* the readings in the order in which their matches begin in the document
FirstAt(name, t, i) ==
  IF \E j \in i..Len(t) : MatchAt(name, t, j).found
  THEN CHOOSE j \in i..Len(t) :
         /\ MatchAt(name, t, j).found
         /\ \A k \in i..(j - 1) : ~MatchAt(name, t, k).found
  ELSE 0

RECURSIVE SortByPosition(_, _)
SortByPosition(rs, t) ==
  IF rs = <<>> THEN <<>>
  ELSE LET pos(k) == FirstAt((CHOOSE d \in {reference_ranges[n] :
                                  n \in 1..Len(reference_ranges)} :
                                d.param = rs[k].parameter).chars, t, 1)
           m == CHOOSE k \in 1..Len(rs) :
                  \A j \in 1..Len(rs) : pos(k) <= pos(j)
       IN <<rs[m]>> \o SortByPosition(
            [k \in 1..(Len(rs) - 1) |-> IF k < m THEN rs[k] ELSE rs[k + 1]], t)

analyze_blood_report_docorder(t) ==
  SortByPosition(AnalyzeFrom(reference_ranges, t, 1), t)

\* the loop reads the module-level table as it is when the call is made
analyze_blood_report(t) == AnalyzeFrom(tables.reference_ranges, t, 1)

(* ---------------- symptom matcher ---------------- *)
\* keyword in symptoms, scanning from position i
FindFrom(sub, s, i) ==
  \E j \in i..(Len(s) - Len(sub) + 1) : StartsWith(s, j, sub)

\* the keyword compared with the whole input
in_equal(sub, s) == sub = s

in(sub, s) == FindFrom(sub, s, 1)

\* a list collecting the tests of every matching keyword
RECURSIVE ExtendFrom(_, _, _)
ExtendFrom(table, s, n) ==
  IF n > Len(table) THEN <<>>
  ELSE IF in(table[n].keyword, s)
  THEN table[n].tests \o ExtendFrom(table, s, n + 1)
  ELSE ExtendFrom(table, s, n + 1)

RecommendedList_extend(table, s) == ExtendFrom(table, s, 1)

\* recommended = set(); for keyword, tests in table: recommended.update(tests)
\* the set after the first n iterations of the loop: the tests of the
\* entries among them whose keyword is in the symptoms
UpdatedAfter(table, s, n) ==
  UNION {{table[m].tests[k] : k \in 1..Len(table[m].tests)} :
           m \in {m \in 1..n : in(table[m].keyword, s)}}

\* list(recommended): the elements of the set, each once, in the order
\* in which the set yields them
RECURSIVE list(_)
list(S) ==
  IF S = {} THEN <<>>
  ELSE LET x == CHOOSE x \in S : TRUE IN <<x>> \o list(S \ {x})

RecommendedList(table, s) == list(UpdatedAfter(table, s, Len(table)))

\* request.json or {}, data.get('symptoms', '').lower()
SymptomsOf(data) == lower(IF data.present THEN data.value ELSE <<>>)

recommend_tests(data) ==
  RecommendedList(tables.symptom_to_tests, SymptomsOf(data))

(* ---------------- specialist recommendation ---------------- *)
\* p in params
InList(p, params) == \E k \in 1..Len(params) : params[k] = p

\* [item['parameter'] for item in analysis if item['status'] == 'Abnormal']
RECURSIVE Abnormal(_)
Abnormal(an) ==
  IF an = <<>> THEN <<>>
  ELSE IF Head(an).status = "Abnormal"
  THEN <<Head(an).parameter>> \o Abnormal(Tail(an))
  ELSE Abnormal(Tail(an))

\* a specialty recommended when all of the abnormal parameters are its own
RecommendedDoctors_all(mapping, abnormal) ==
  {mapping[n].doc :
     n \in {n \in 1..Len(mapping) :
              \A k \in 1..Len(abnormal) :
                InList(abnormal[k], mapping[n].params)}}

\* {doc for doc, params in mapping.items()
\*      if any(p in params for p in abnormal)}
RecommendedDoctors(mapping, abnormal) ==
  {mapping[n].doc :
     n \in {n \in 1..Len(mapping) :
              \E k \in 1..Len(abnormal) :
                InList(abnormal[k], mapping[n].params)}}

DocChars(d) ==
  (CHOOSE e \in {doctor_mapping[n] : n \in 1..Len(doctor_mapping)} :
     e.doc = d).chars

\* sep.join(parts)
RECURSIVE join(_, _)
join(sep, parts) ==
  IF parts = <<>> THEN <<>>
  ELSE IF Len(parts) = 1 THEN parts[1]
  ELSE parts[1] \o sep \o join(sep, Tail(parts))

\* the orders in which a set may yield its elements
RECURSIVE Orders(_)
Orders(S) ==
  IF S = {} THEN {<<>>}
  ELSE UNION {{<<x>> \o q : q \in Orders(S \ {x})} : x \in S}

\* "All parameters normal."
AllNormal ==
  <<"A", "l", "l", " ", "p", "a", "r", "a", "m", "e", "t", "e", "r", "s",
    " ", "n", "o", "r", "m", "a", "l", ".">>

\* the join without the else branch
DoctorRecommendation_nosentinel(order) ==
  join(<<",", " ">>, [k \in 1..Len(order) |-> DocChars(order[k])])

\* the names joined by a bare comma
DoctorRecommendation_comma(order) ==
  IF order # <<>>
  THEN join(<<",">>, [k \in 1..Len(order) |-> DocChars(order[k])])
  ELSE AllNormal

\* ", ".join(recommended_doctors) if recommended_doctors
\*     else "All parameters normal.", order being the set's iteration order
DoctorRecommendation(order) ==
  IF order # <<>>
  THEN join(<<",", " ">>, [k \in 1..Len(order) |-> DocChars(order[k])])
  ELSE AllNormal

(* ---------------- the module-level tables as objects ---------------- *)
\* the three dicts bound at module level when the application is loaded
ShippedTables ==
  [reference_ranges |-> reference_ranges,
   symptom_to_tests |-> symptom_to_tests,
   doctor_mapping |-> doctor_mapping]

\* the loop of analyze_blood_report taking each matched entry out of the dict
RECURSIVE Unmatched(_, _)
Unmatched(table, t) ==
  IF table = <<>> THEN <<>>
  ELSE IF re_search(Head(table).chars, t).found
  THEN Unmatched(Tail(table), t)
  ELSE <<Head(table)>> \o Unmatched(Tail(table), t)

GlobalsAfterAnalyze_pop(g, t) ==
  [g EXCEPT !.reference_ranges = Unmatched(g.reference_ranges, t)]

\* the tables after analyze_blood_report(t): reference_ranges.items() and
\* details[...] are reads, every assignment of the function is to a local
GlobalsAfterAnalyze(g, t) == g

\* the tables after recommend_tests: symptom_to_tests.items() is a read and
\* update() changes the local set, never a list of the table
GlobalsAfterRecommend(g, s) == g

\* the tables after the recommendation of upload_report:
\* doctor_mapping.items() and "p in params" are reads
GlobalsAfterUpload(g, abnormal) == g

\* the text and the analysis that the latest call of analyze_blood_report
\* found in place
NoPrevious == [text |-> <<>>, analysis |-> <<>>]

\* a request being served, from the call of analyze_blood_report (line
\* 350) to the response (line 360): where it stands, the text it was called
\* on, the table entry its loop is at, the response it gave
IdleCall ==
  [pc |-> "idle", text |-> <<>>, n |-> 0,
   result |-> [analysis |-> <<>>, doctor_recommendation |-> <<>>]]

\* the working data of one request: analysis of analyze_blood_report,
\* abnormal, recommended_doctors and doctor_recommendation of upload_report
NoLocals ==
  [analysis |-> <<>>, abnormal |-> <<>>, recommended_doctors |-> {},
   doctor_recommendation |-> <<>>]

ModuleLoaded ==
  /\ tables = ShippedTables
  /\ previous = NoPrevious
  /\ calls = [c \in 1..MaxAnalyses |-> IdleCall]
  /\ locals = [f \in 1..MaxAnalyses |-> NoLocals]

(* ---------------- users, sessions, reports ---------------- *)
EmptySession == [k \in {} |-> TRUE]

\* 'admin_id' in session
HasAdmin(s) == "admin_id" \in DOMAIN s

\* a check that lets every session through
MasterVerified_always(s) == TRUE

\* session.get('master_verified')
MasterVerified(s) == "master_verified" \in DOMAIN s /\ s["master_verified"]

\* session.clear()
clear(s) == EmptySession

\* session.pop(key, None)
pop(s, key) == [k \in DOMAIN s \ {key} |-> s[k]]

\* generate_password_hash and check_password_hash
Hash(password) == <<"hash", password>>

CheckHash(hash, password) == hash = Hash(password)

\* User.query.filter_by(email=email).first(), 0 for None
FirstUser(us, email) ==
  IF \E k \in 1..Len(us) : us[k].email = email
  THEN CHOOSE k \in 1..Len(us) :
         /\ us[k].email = email
         /\ \A j \in 1..(k - 1) : us[j].email # email
  ELSE 0

\* the primary key given to a new row
NextId(rows) ==
  IF rows = <<>> THEN 1
  ELSE 1 + (CHOOSE i \in {rows[k].id : k \in 1..Len(rows)} :
              \A k \in 1..Len(rows) : rows[k].id <= i)

\* str(n) for a key below 10
Str(n) == <<Digits[n + 1]>>

\* f"user_{session['user_id']}_{secrets.token_hex(6)}_{file.filename}"
SafeName(user_id, token, filename) ==
  <<"u", "s", "e", "r", "_">> \o Str(user_id) \o <<"_">> \o token
    \o <<"_">> \o filename

\* os.path.join(app.config['UPLOAD_FOLDER'], safe_name)
FilePath(safe_name) == <<"u", "p", "l", "o", "a", "d", "s", "/">> \o safe_name

\* a file object that never counts as missing
not_file_never(doc) == FALSE

\* not file: request.files.get gives None when the field is absent, and a
\* file object without a filename is false
not_file(doc) == doc.filename = <<>>

NoResponse ==
  [code |-> 0, error |-> "", analysis |-> <<>>, doctor_recommendation |-> <<>>]

ErrorResponse(code, error) ==
  [code |-> code, error |-> error, analysis |-> <<>>,
   doctor_recommendation |-> <<>>]

\* the admin created when the application starts on a new database
DefaultAdmins ==
  <<[id |-> 1, email |-> "admin@example.com", password |-> Hash("admin123"),
     plain_password |-> "admin123"]>>

NoWeb ==
  /\ admins = DefaultAdmins
  /\ session = EmptySession
  /\ users = <<>>
  /\ reports = <<>>
  /\ uploads = [path \in {} |-> NoFile]
  /\ response = NoResponse
  /\ recommended_doctors = {}

(* ---------------- input texts ---------------- *)
Fragments ==
  { <<"h", "e", "m", "o", "g", "l", "o", "b", "i", "n">>,
    <<"w", "b", "c">>,
    <<":">>, <<" ">>, <<".">>,
    <<"1", "0", ".", "2">>,
    <<"1", "3", ".", "5">>,
    <<"1", "7", ".", "5">>,
    <<"1", "2", "0", "0", "0">> }

RECURSIVE Concats(_)
Concats(n) ==
  IF n = 0 THEN {<<>>}
  ELSE Concats(n - 1) \cup {s \o f : s \in Concats(n - 1), f \in Fragments}

\* "hemoglobin: 10.2 wbc 12000"
ExampleText ==
  <<"h", "e", "m", "o", "g", "l", "o", "b", "i", "n", ":", " ",
    "1", "0", ".", "2", " ", "w", "b", "c", " ", "1", "2", "0", "0", "0">>

Texts == Concats(MaxFrags) \cup {ExampleText}

(* ---------------- input documents ---------------- *)
FileNames ==
  { <<"r", ".", "p", "n", "g">>, <<"r", ".", "j", "p", "g">>,
    <<"r", ".", "j", "p", "e", "g">>, <<"r", ".", "p", "d", "f">>,
    <<"r", ".", "P", "D", "F">>, <<"r", ".", "d", "o", "c">>,
    <<"r", ".", "d", "o", "c", "x">>, <<"r", ".", "t", "x", "t">>,
    <<"r", ".", "c", "s", "v">> }

\* "", "Hemoglobin: 10.2", "glucose 250", "WBC 7000"
PartTexts ==
  { <<>>,
    <<"H", "e", "m", "o", "g", "l", "o", "b", "i", "n", ":", " ",
      "1", "0", ".", "2">>,
    <<"g", "l", "u", "c", "o", "s", "e", " ", "2", "5", "0">>,
    <<"W", "B", "C", " ", "7", "0", "0", "0">> }

RECURSIVE PartSeqs(_)
PartSeqs(n) ==
  IF n = 0 THEN {<<>>}
  ELSE PartSeqs(n - 1)
         \cup {Append(ps, p) : ps \in PartSeqs(n - 1), p \in PartTexts}

Documents(n) ==
  {[filename |-> f, parts |-> ps, failAt |-> k] :
     f \in FileNames, ps \in PartSeqs(n), k \in 0..(n + 1)}

Usernames == {"ann"}

Emails == {"ann@example.org"}

Passwords == {"pw1", "pw2"}

\* one value of secrets.token_hex(6)
Tokens == {<<"a", "1", "b", "2", "c", "3", "d", "4", "e", "5", "f", "6">>}

FormSymptoms == {"fatigue"}

\* "r.pdf", "r.docx", "r.csv"
UploadFileNames ==
  { <<"r", ".", "p", "d", "f">>, <<"r", ".", "d", "o", "c", "x">>,
    <<"r", ".", "c", "s", "v">> }

\* "", "Hemoglobin: 10.2", "glucose 250"
UploadPartTexts ==
  { <<>>,
    <<"H", "e", "m", "o", "g", "l", "o", "b", "i", "n", ":", " ",
      "1", "0", ".", "2">>,
    <<"g", "l", "u", "c", "o", "s", "e", " ", "2", "5", "0">> }

\* the uploads: no file, or a document that opens or fails to open
UploadFiles ==
  {NoFile} \cup {d \in Documents(MaxUploadParts) :
                   /\ d.filename \in UploadFileNames
                   /\ \A k \in 1..Len(d.parts) : d.parts[k] \in UploadPartTexts
                   /\ d.failAt \in {0, Len(d.parts) + 1}}

(* ---------------- symptom inputs ---------------- *)
\* "fatigue", "persistent ", "diarrhea", " and ", "thirst", "y", "Fever"
SymptomFragments ==
  { <<"f", "a", "t", "i", "g", "u", "e">>,
    <<"p", "e", "r", "s", "i", "s", "t", "e", "n", "t", " ">>,
    <<"d", "i", "a", "r", "r", "h", "e", "a">>,
    <<" ", "a", "n", "d", " ">>,
    <<"t", "h", "i", "r", "s", "t">>,
    <<"y">>,
    <<"F", "e", "v", "e", "r">> }

RECURSIVE SymptomTexts(_)
SymptomTexts(n) ==
  IF n = 0 THEN {<<>>}
  ELSE SymptomTexts(n - 1)
         \cup {s \o f : s \in SymptomTexts(n - 1), f \in SymptomFragments}

NoData == [present |-> FALSE, value |-> <<>>]

\* "I have fatigue and joint pain"
ExampleSymptoms ==
  <<"I", " ", "h", "a", "v", "e", " ", "f", "a", "t", "i", "g", "u", "e",
    " ", "a", "n", "d", " ", "j", "o", "i", "n", "t", " ", "p", "a", "i", "n">>

SymptomRequests ==
  {NoData} \cup {[present |-> TRUE, value |-> s] :
                   s \in SymptomTexts(MaxSymptomFrags) \cup {ExampleSymptoms}}

NoSymptoms == symptoms = NoData /\ recommended_tests = <<>>

(* ---------------- what the claims speak of ---------------- *)
Params == {reference_ranges[n].param : n \in 1..Len(reference_ranges)}

Details(P) ==
  CHOOSE d \in {reference_ranges[n] : n \in 1..Len(reference_ranges)} :
    d.param = P

TableIndex(P) ==
  CHOOSE n \in 1..Len(reference_ranges) : reference_ranges[n].param = P

\* tok is a numeric token: digits, or optional digits, a dot and digits
IsNumericToken(tok) ==
  \E a \in 0..Len(tok) : \E d \in {0, 1} :
    /\ a + d < Len(tok)
    /\ \A k \in 1..a : IsDigit(tok[k])
    /\ d = 1 => tok[a + 1] = "."
    /\ \A k \in (a + d + 1)..Len(tok) : IsDigit(tok[k])

\* a numeric token starts at position s of t
TokenAt(t, s) == \E e \in s..Len(t) : IsNumericToken(SubSeq(t, s, e))

\* the literal name at position i of t, then whitespace and colons only,
\* then a numeric token
OccursAt(name, t, i) ==
  /\ StartsWith(t, i, name)
  /\ \E s \in (i + Len(name))..Len(t) :
       /\ \A k \in (i + Len(name))..(s - 1) : IsSep(t[k])
       /\ TokenAt(t, s)

Occurrences(name, t) == {i \in 1..Len(t) : OccursAt(name, t, i)}

Min(S) == CHOOSE x \in S : \A y \in S : x <= y

Max(S) == CHOOSE x \in S : \A y \in S : x >= y

\* the number written at the occurrence at position i: its longest token
ValueAt(name, t, i) ==
  LET s == CHOOSE s \in (i + Len(name))..Len(t) :
             /\ \A k \in (i + Len(name))..(s - 1) : IsSep(t[k])
             /\ TokenAt(t, s)
      e == Max({e \in s..Len(t) : IsNumericToken(SubSeq(t, s, e))})
  IN float(SubSeq(t, s, e)).value

Readings == {analysis[k] : k \in 1..Len(analysis)}

Analyzed == last_call = "analyze_blood_report"

InRange(r) ==
  /\ ~Less(r.value, Details(r.parameter).min)
  /\ ~Less(Details(r.parameter).max, r.value)

(* ---------------- the analysis as a state machine ---------------- *)
InitAnalyze ==
  /\ ModuleLoaded
  /\ text \in Texts
  /\ analysis = <<>>
  /\ last_call = "none"
  /\ file = NoFile
  /\ NoSymptoms
  /\ NoWeb

AnalyzeBloodReport ==
  /\ last_call = "none"
  /\ analysis' = analyze_blood_report(text)
  /\ last_call' = "analyze_blood_report"
  /\ tables' = GlobalsAfterAnalyze(tables, text)
  /\ UNCHANGED <<text, file, symptomVars, webVars, previous, calls, locals,
                 admins>>

NextAnalyze == AnalyzeBloodReport

SpecAnalyze == InitAnalyze /\ [][NextAnalyze]_vars

(* ---------------- the extraction as a state machine ---------------- *)
InitExtract ==
  /\ ModuleLoaded
  /\ file \in {d \in Documents(MaxParts) : d.failAt <= Len(d.parts) + 1}
  /\ text = <<>>
  /\ analysis = <<>>
  /\ last_call = "none"
  /\ NoSymptoms
  /\ NoWeb

ExtractTextFromFile ==
  /\ last_call = "none"
  /\ text' = extract_text_from_file(file.filename, file)
  /\ last_call' = "extract_text_from_file"
  /\ UNCHANGED <<analysis, file, symptomVars, webVars, tables,
                 previous, calls, locals, admins>>

NextExtract == ExtractTextFromFile

SpecExtract == InitExtract /\ [][NextExtract]_vars

(* ---------------- the symptom matcher as a state machine ---------------- *)
InitSymptoms ==
  /\ ModuleLoaded
  /\ symptoms \in SymptomRequests
  /\ recommended_tests = <<>>
  /\ text = <<>>
  /\ analysis = <<>>
  /\ file = NoFile
  /\ last_call = "none"
  /\ NoWeb

RecommendTests ==
  /\ last_call = "none"
  /\ recommended_tests' = recommend_tests(symptoms)
  /\ last_call' = "recommend_tests"
  /\ tables' = GlobalsAfterRecommend(tables, SymptomsOf(symptoms))
  /\ UNCHANGED <<symptoms, reportVars, webVars, previous, calls, locals,
                 admins>>

NextSymptoms == RecommendTests

SpecSymptoms == InitSymptoms /\ [][NextSymptoms]_vars

(* ---------------- the web application as a state machine ---------------- *)
InitUpload ==
  /\ ModuleLoaded
  /\ NoWeb
  /\ NoSymptoms
  /\ text = <<>>
  /\ analysis = <<>>
  /\ file = NoFile
  /\ last_call = "none"

\* POST /signup
Signup(username, email, password) ==
  /\ IF FirstUser(users, email) # 0
     THEN UNCHANGED users
     ELSE users' = Append(users, [id |-> NextId(users), username |-> username,
                                  email |-> email,
                                  password |-> Hash(password)])
  /\ UNCHANGED <<reportVars, symptomVars, last_call, session, reports, uploads,
                 response, recommended_doctors, tables, previous,
                 calls, locals, admins>>

\* POST /login
Login(email, password) ==
  /\ LET u == FirstUser(users, email)
     IN IF u # 0 /\ CheckHash(users[u].password, password)
        THEN session' = ("user_id" :> users[u].id)
                          @@ ("username" :> users[u].username)
                          @@ ("_permanent" :> TRUE) @@ session
        ELSE UNCHANGED session
  /\ UNCHANGED <<reportVars, symptomVars, last_call, users, reports, uploads,
                 response, recommended_doctors, tables, previous,
                 calls, locals, admins>>

\* GET /logout
Logout ==
  /\ session' = clear(session)
  /\ UNCHANGED <<reportVars, symptomVars, last_call, users, reports, uploads,
                 response, recommended_doctors, tables, previous,
                 calls, locals, admins>>

\* POST /upload-report
UploadReport(doc, form_symptoms, token) ==
  /\ NextId(reports) <= MaxReports
  /\ IF "user_id" \notin DOMAIN session
     THEN /\ response' = ErrorResponse(401, "Login required")
          /\ UNCHANGED <<file, text, analysis, reports, uploads,
                         recommended_doctors, tables>>
     ELSE IF not_file(doc)
     THEN /\ response' = ErrorResponse(400, "No file uploaded")
          /\ file' = doc
          /\ UNCHANGED <<text, analysis, reports, uploads,
                         recommended_doctors, tables>>
     ELSE LET safe_name == SafeName(session["user_id"], token, doc.filename)
              filepath == FilePath(safe_name)
              saved == (filepath :> doc) @@ uploads
          IN \E t \in {extract_text_from_file(filepath, saved[filepath])} :
             \E an \in {analyze_blood_report(t)} :
             \E rec \in {RecommendedDoctors(tables.doctor_mapping,
                                                 Abnormal(an))} :
             \E order \in Orders(rec) :
               /\ file' = doc
               /\ tables' = GlobalsAfterUpload(GlobalsAfterAnalyze(tables, t),
                                               Abnormal(an))
               /\ uploads' = saved
               /\ text' = t
               /\ analysis' = an
               /\ recommended_doctors' = rec
               /\ reports' = Append(reports,
                    [id |-> NextId(reports),
                     user_id |-> session["user_id"],
                     symptoms |-> form_symptoms,
                     filename |-> safe_name,
                     doctor_recommendation |-> DoctorRecommendation(order)])
               /\ response' =
                    [code |-> 200, error |-> "", analysis |-> an,
                     doctor_recommendation |-> DoctorRecommendation(order)]
  /\ UNCHANGED <<symptomVars, last_call, session, users, previous,
                 calls, locals, admins>>

NextUpload ==
  \/ \E u \in Usernames, e \in Emails, p \in Passwords : Signup(u, e, p)
  \/ \E e \in Emails, p \in Passwords : Login(e, p)
  \/ Logout
  \/ \E d \in UploadFiles, fs \in FormSymptoms, tk \in Tokens :
       UploadReport(d, fs, tk)

SpecUpload == InitUpload /\ [][NextUpload]_vars

(* ---------------- the admin and super-admin routes ---------------- *)
\* Model.query.get_or_404(id): the position of the row, 0 where it aborts
RowWithId(rows, id) ==
  IF \E k \in 1..Len(rows) : rows[k].id = id
  THEN CHOOSE k \in 1..Len(rows) : rows[k].id = id
  ELSE 0

\* db.session.delete of the row at position k
Delete(rows, k) == SubSeq(rows, 1, k - 1) \o SubSeq(rows, k + 1, Len(rows))

\* if os.path.exists(path): os.remove(path)
Remove(files, path) == [q \in DOMAIN files \ {path} |-> files[q]]

\* the files left when those of the reports rs are removed
RECURSIVE RemoveAll(_, _)
RemoveAll(files, rs) ==
  IF rs = <<>> THEN files
  ELSE RemoveAll(IF Head(rs).filename # <<>>
                 THEN Remove(files, FilePath(Head(rs).filename))
                 ELSE files, Tail(rs))

\* the reports of the user (own) or of the other users (~own), in the
\* order of the rows
RECURSIVE Select(_, _, _)
Select(rs, user_id, own) ==
  IF rs = <<>> THEN <<>>
  ELSE IF (Head(rs).user_id = user_id) = own
  THEN <<Head(rs)>> \o Select(Tail(rs), user_id, own)
  ELSE Select(Tail(rs), user_id, own)

MASTER_PASSWORD == "supersecure123"

\* Admin(email=email, password=hashed, plain_password=password), added
\* and committed
AddAdmin(rows, email, password) ==
  Append(rows, [id |-> NextId(rows), email |-> email,
                password |-> Hash(password), plain_password |-> password])

\* emails of the forms, stripped and in lower case as strip().lower()
\* leaves them
AdminEmails == {"admin@example.com", "new@example.com"}

AdminPasswords == {"admin123"}

\* secrets.token_urlsafe(8)
TempPasswords == {"tmp1"}

MasterPasswords == {MASTER_PASSWORD, "guess"}

otherVars ==
  <<reportVars, symptomVars, last_call, tables, previous, calls, locals,
    response, recommended_doctors>>

\* POST /admin-login
AdminLogin(email, password) ==
  /\ LET a == FirstUser(admins, email)
     IN IF a # 0 /\ CheckHash(admins[a].password, password)
        THEN session' = ("admin_id" :> admins[a].id)
                          @@ ("admin_email" :> admins[a].email) @@ session
        ELSE UNCHANGED session
  /\ UNCHANGED <<otherVars, users, reports, uploads, admins>>

\* POST /create-admin
CreateAdmin(email, password) ==
  /\ NextId(admins) <= MaxAdmins
  /\ IF ~HasAdmin(session) \/ FirstUser(admins, email) # 0
     THEN UNCHANGED admins
     ELSE admins' = AddAdmin(admins, email, password)
  /\ UNCHANGED <<otherVars, session, users, reports, uploads>>

\* POST /admin/delete-report/<report_id>
AdminDeleteReport(report_id) ==
  /\ LET r == RowWithId(reports, report_id)
     IN IF ~HasAdmin(session) \/ r = 0
        THEN UNCHANGED <<reports, uploads>>
        ELSE /\ uploads' = RemoveAll(uploads, <<reports[r]>>)
             /\ reports' = Delete(reports, r)
  /\ UNCHANGED <<otherVars, session, users, admins>>

\* POST /admin/delete-user/<user_id>
AdminDeleteUser(user_id) ==
  /\ LET u == RowWithId(users, user_id)
     IN IF ~HasAdmin(session) \/ u = 0
        THEN UNCHANGED <<users, reports, uploads>>
        ELSE /\ uploads' = RemoveAll(uploads, Select(reports, user_id, TRUE))
             /\ users' = Delete(users, u)
             /\ reports' = Select(reports, user_id, FALSE)
  /\ UNCHANGED <<otherVars, session, admins>>

\* POST /admin/reset-password/<user_id>
AdminResetPassword(user_id, temp_password) ==
  /\ LET u == RowWithId(users, user_id)
     IN IF ~HasAdmin(session) \/ u = 0
        THEN UNCHANGED users
        ELSE users' = [users EXCEPT ![u].password = Hash(temp_password)]
  /\ UNCHANGED <<otherVars, session, reports, uploads, admins>>

\* POST /admin-master-login
AdminMasterLogin(mp) ==
  /\ IF mp = MASTER_PASSWORD
     THEN session' = ("master_verified" :> TRUE) @@ session
     ELSE UNCHANGED session
  /\ UNCHANGED <<otherVars, users, reports, uploads, admins>>

\* POST /super/create-admin
SuperCreateAdmin(email, password) ==
  /\ NextId(admins) <= MaxAdmins
  /\ IF ~MasterVerified(session) \/ email = "" \/ password = ""
          \/ FirstUser(admins, email) # 0
     THEN UNCHANGED admins
     ELSE admins' = AddAdmin(admins, email, password)
  /\ UNCHANGED <<otherVars, session, users, reports, uploads>>

\* POST /super/delete-admin/<admin_id>
SuperDeleteAdmin(admin_id) ==
  /\ LET a == RowWithId(admins, admin_id)
     IN IF ~MasterVerified(session) \/ a = 0
        THEN UNCHANGED admins
        ELSE admins' = Delete(admins, a)
  /\ UNCHANGED <<otherVars, session, users, reports, uploads>>

\* POST /super/reset-admin-password/<admin_id>
SuperResetAdminPassword(admin_id, temp_password) ==
  /\ LET a == RowWithId(admins, admin_id)
     IN IF ~MasterVerified(session) \/ a = 0
        THEN UNCHANGED admins
        ELSE admins' = [admins EXCEPT ![a].password = Hash(temp_password),
                                      ![a].plain_password = temp_password]
  /\ UNCHANGED <<otherVars, session, users, reports, uploads>>

\* POST /super/logout-master
SuperLogoutMaster ==
  /\ session' = pop(session, "master_verified")
  /\ UNCHANGED <<otherVars, users, reports, uploads, admins>>

(* ---------------- calls in sequence ---------------- *)
\* texts handed to analyze_blood_report one call after the other
CallTexts ==
  {<<>>, ExampleText, <<"g", "l", "u", "c", "o", "s", "e", " ", "9", "0">>}

\* no JSON body, and {"symptoms": "fatigue"}
CallSymptoms ==
  {NoData,
   [present |-> TRUE, value |-> <<"f", "a", "t", "i", "g", "u", "e">>]}

\* no file, a PDF whose page reads "Hemoglobin: 10.2", a PDF that does not
\* open
CallFiles ==
  { NoFile,
    [filename |-> <<"r", ".", "p", "d", "f">>,
     parts |-> << <<"H", "e", "m", "o", "g", "l", "o", "b", "i", "n", ":",
                    " ", "1", "0", ".", "2">> >>,
     failAt |-> 2],
    [filename |-> <<"r", ".", "p", "d", "f">>, parts |-> <<>>, failAt |-> 0] }

\* a registered user, logged in
InitCalls ==
  /\ ModuleLoaded
  /\ NoSymptoms
  /\ text = <<>>
  /\ analysis = <<>>
  /\ file = NoFile
  /\ last_call = "none"
  /\ \E u \in Usernames, e \in Emails, p \in Passwords :
       /\ users = <<[id |-> 1, username |-> u, email |-> e,
                     password |-> Hash(p)]>>
       /\ session = ("user_id" :> 1) @@ ("username" :> u)
                       @@ ("_permanent" :> TRUE)
  /\ reports = <<>>
  /\ uploads = [path \in {} |-> NoFile]
  /\ response = NoResponse
  /\ recommended_doctors = {}
  /\ admins = DefaultAdmins

\* analyze_blood_report(t)
AnalyzeCall(t) ==
  /\ previous' = [text |-> text, analysis |-> analysis]
  /\ text' = t
  /\ analysis' = analyze_blood_report(t)
  /\ tables' = GlobalsAfterAnalyze(tables, t)
  /\ last_call' = "analyze_blood_report"
  /\ UNCHANGED <<file, symptomVars, webVars, calls, locals, admins>>

\* POST /recommend-tests
RecommendCall(data) ==
  /\ symptoms' = data
  /\ recommended_tests' = recommend_tests(data)
  /\ tables' = GlobalsAfterRecommend(tables, SymptomsOf(data))
  /\ last_call' = "recommend_tests"
  /\ UNCHANGED <<reportVars, webVars, previous, calls, locals,
                 admins>>

NextCalls ==
  \/ \E t \in CallTexts : AnalyzeCall(t)
  \/ \E data \in CallSymptoms : RecommendCall(data)
  \/ \E d \in CallFiles, fs \in FormSymptoms, tk \in Tokens :
       UploadReport(d, fs, tk)

SpecCalls == InitCalls /\ [][NextCalls]_vars

(* ---------------- analyses in parallel ---------------- *)
\* texts of the requests served at the same time
ConcurrentTexts ==
  {ExampleText, <<"g", "l", "u", "c", "o", "s", "e", " ", "2", "5", "0">>}

\* the names of a call are bound in a frame of their own
Local_shared(c) == 1

\* the frame holding the local names of call c: analysis (line 239),
\* abnormal, recommended_doctors, doctor_recommendation (lines 352 to 354)
Local(c) == c

\* what one iteration of the loop appends to analysis
LoopBody(details, t) == AnalyzeFrom(<<details>>, t, 1)

\* analysis = analyze_blood_report(text), up to analysis = []
BeginAnalysis(c, t) ==
  /\ calls[c].pc = "idle"
  /\ calls' = [calls EXCEPT ![c].pc = "loop", ![c].text = t, ![c].n = 1]
  /\ locals' = [locals EXCEPT ![Local(c)].analysis = <<>>]
  /\ UNCHANGED <<reportVars, symptomVars, webVars, last_call, tables,
                 previous, admins>>

\* one iteration of the for loop, or its end and the return of analysis
LoopIteration(c) ==
  /\ calls[c].pc = "loop"
  /\ IF calls[c].n > Len(tables.reference_ranges)
     THEN /\ calls' = [calls EXCEPT ![c].pc = "abnormal"]
          /\ UNCHANGED locals
     ELSE /\ calls' = [calls EXCEPT ![c].n = @ + 1]
          /\ locals' = [locals EXCEPT ![Local(c)].analysis =
               @ \o LoopBody(tables.reference_ranges[calls[c].n],
                             calls[c].text)]
  /\ UNCHANGED <<reportVars, symptomVars, webVars, last_call, tables,
                 previous, admins>>

\* abnormal = [item['parameter'] for item in analysis if ...]
ListAbnormal(c) ==
  /\ calls[c].pc = "abnormal"
  /\ calls' = [calls EXCEPT ![c].pc = "doctors"]
  /\ locals' = [locals EXCEPT ![Local(c)].abnormal =
                  Abnormal(locals[Local(c)].analysis)]
  /\ UNCHANGED <<reportVars, symptomVars, webVars, last_call, tables,
                 previous, admins>>

\* recommended_doctors = {doc for doc, params in doctor_mapping.items() ...}
CollectDoctors(c) ==
  /\ calls[c].pc = "doctors"
  /\ calls' = [calls EXCEPT ![c].pc = "join"]
  /\ locals' = [locals EXCEPT ![Local(c)].recommended_doctors =
                  RecommendedDoctors(tables.doctor_mapping,
                                     locals[Local(c)].abnormal)]
  /\ UNCHANGED <<reportVars, symptomVars, webVars, last_call, tables,
                 previous, admins>>

\* doctor_recommendation = ", ".join(recommended_doctors) if ... else ...
JoinDoctors(c) ==
  /\ calls[c].pc = "join"
  /\ calls' = [calls EXCEPT ![c].pc = "respond"]
  /\ \E order \in Orders(locals[Local(c)].recommended_doctors) :
       locals' = [locals EXCEPT ![Local(c)].doctor_recommendation =
                    DoctorRecommendation(order)]
  /\ UNCHANGED <<reportVars, symptomVars, webVars, last_call, tables,
                 previous, admins>>

\* return jsonify({'analysis': analysis, 'doctor_recommendation': ...})
Respond(c) ==
  /\ calls[c].pc = "respond"
  /\ calls' = [calls EXCEPT ![c].pc = "done",
                            ![c].result =
                              [analysis |-> locals[Local(c)].analysis,
                               doctor_recommendation |->
                                 locals[Local(c)].doctor_recommendation]]
  /\ UNCHANGED <<reportVars, symptomVars, webVars, last_call, tables,
                 previous, admins, locals>>

InitConcurrent == InitUpload

NextConcurrent ==
  \E c \in 1..MaxAnalyses :
    \/ \E t \in ConcurrentTexts : BeginAnalysis(c, t)
    \/ LoopIteration(c)
    \/ ListAbnormal(c)
    \/ CollectDoctors(c)
    \/ JoinDoctors(c)
    \/ Respond(c)

SpecConcurrent == InitConcurrent /\ [][NextConcurrent]_vars

(* ---------------- the admin routes as a state machine ---------------- *)
\* the password of the signup form, and the ones tried at login
AdminSpecPasswords == {"pw1"}

\* the uploads whose reports the admin deletes: the files with a name
AdminSpecFiles == {d \in CallFiles : d.filename # <<>> /\ d.failAt # 0}

\* the id of the one user, and an id no user has
UserIds == {1, 2}

InitAdmin == InitUpload

NextAdmin ==
  \/ \E u \in Usernames, e \in Emails, p \in AdminSpecPasswords :
       Signup(u, e, p)
  \/ \E e \in Emails, p \in AdminSpecPasswords \cup TempPasswords :
       Login(e, p)
  \/ Logout
  \/ \E d \in AdminSpecFiles, fs \in FormSymptoms, tk \in Tokens :
       UploadReport(d, fs, tk)
  \/ \E e \in AdminEmails, p \in AdminPasswords \cup TempPasswords :
       AdminLogin(e, p)
  \/ \E e \in AdminEmails, p \in AdminPasswords : CreateAdmin(e, p)
  \/ \E report_id \in 1..MaxReports : AdminDeleteReport(report_id)
  \/ \E user_id \in UserIds : AdminDeleteUser(user_id)
  \/ \E user_id \in UserIds, tp \in TempPasswords :
       AdminResetPassword(user_id, tp)
  \/ \E mp \in MasterPasswords : AdminMasterLogin(mp)
  \/ \E e \in AdminEmails \cup {""}, p \in AdminPasswords :
       SuperCreateAdmin(e, p)
  \/ \E admin_id \in 1..MaxAdmins : SuperDeleteAdmin(admin_id)
  \/ \E admin_id \in 1..MaxAdmins, tp \in TempPasswords :
       SuperResetAdminPassword(admin_id, tp)
  \/ SuperLogoutMaster

SpecAdmin == InitAdmin /\ [][NextAdmin]_vars

(* ---------------- claims on the analysis ---------------- *)
\* C1: every reading is Normal exactly when min <= value <= max of its
\* parameter, both bounds included, and Abnormal otherwise.
C1_StatusIffInRange ==
  Analyzed =>
    \A r \in Readings :
      /\ r.status \in {"Normal", "Abnormal"}
      /\ r.status = "Normal" <=> InRange(r)

\* a reading whose value is exactly the min of its range, and Normal
C1_Witness ==
  /\ Analyzed
  /\ \E r \in Readings :
       r.value = Details(r.parameter).min /\ r.status = "Normal"

\* C2: a parameter whose name nowhere occurs followed by a number has no
\* reading.
C2_AbsentNoReading ==
  Analyzed =>
    \A P \in Params :
      Occurrences(Details(P).chars, text) = {} =>
        \A r \in Readings : r.parameter # P

\* the name wbc is in the text, never followed by a number; another
\* parameter is read
C2_Witness ==
  /\ Analyzed
  /\ \E i \in 1..Len(text) : StartsWith(text, i, Details("wbc").chars)
  /\ Occurrences(Details("wbc").chars, text) = {}
  /\ \A r \in Readings : r.parameter # "wbc"
  /\ Readings # {}

\* C3: the reading of a parameter carries the number of the earliest
\* occurrence of its name followed by a number.
C3_FirstMatchWins ==
  Analyzed =>
    \A r \in Readings :
      LET name == Details(r.parameter).chars
      IN /\ Occurrences(name, text) # {}
         /\ r.value = ValueAt(name, text, Min(Occurrences(name, text)))

\* two occurrences with different numbers, the reading carrying the first
C3_Witness ==
  /\ Analyzed
  /\ \E r \in Readings :
       LET name == Details(r.parameter).chars
           occ == Occurrences(name, text)
       IN /\ Cardinality(occ) >= 2
          /\ ValueAt(name, text, Min(occ)) # ValueAt(name, text, Max(occ))
          /\ r.value = ValueAt(name, text, Min(occ))

LowMessage(P) == "Low " \o P \o ": may indicate " \o Details(P).explanation

\* C4: below min the explanation is the Low message built around the
\* reference explanation, above max it is the reference explanation, else
\* the within-range message; the example text gives hemoglobin 10.2 low and
\* wbc 12000 high.
C4_Explanations ==
  Analyzed =>
    /\ \A r \in Readings :
         LET d == Details(r.parameter)
         IN r.explanation =
              IF Less(r.value, d.min) THEN LowMessage(r.parameter)
              ELSE IF Less(d.max, r.value) THEN d.explanation
              ELSE "Within normal range."
    /\ text = ExampleText =>
         /\ Len(analysis) = 2
         /\ analysis[1].parameter = "hemoglobin"
         /\ analysis[1].value = Dec(<<1, 0>>, <<2>>)
         /\ analysis[1].status = "Abnormal"
         /\ Less(analysis[1].value, Details("hemoglobin").min)
         /\ analysis[1].explanation = LowMessage("hemoglobin")
         /\ analysis[2].parameter = "wbc"
         /\ analysis[2].value = Dec(<<1, 2, 0, 0, 0>>, <<>>)
         /\ analysis[2].status = "Abnormal"
         /\ Less(Details("wbc").max, analysis[2].value)
         /\ analysis[2].explanation = Details("wbc").explanation

C4_Witness == Analyzed /\ text = ExampleText /\ Len(analysis) = 2

\* C9: the parameters of the readings follow the order of the table keys,
\* so none occurs twice.
C9_TableOrder ==
  Analyzed =>
    \A i, j \in 1..Len(analysis) :
      i < j => TableIndex(analysis[i].parameter)
                 < TableIndex(analysis[j].parameter)

\* wbc is matched before hemoglobin in the text, and read after it
C9_Witness ==
  /\ Analyzed
  /\ Len(analysis) = 2
  /\ analysis[1].parameter = "hemoglobin"
  /\ analysis[2].parameter = "wbc"
  /\ Min(Occurrences(Details("wbc").chars, text))
       < Min(Occurrences(Details("hemoglobin").chars, text))

(* ---------------- claims on the extraction ---------------- *)
Extracted == last_call = "extract_text_from_file"

Supported(filepath) ==
  HasExt(filepath, ImageExts \cup PdfExts \cup DocExts \cup TxtExts)

\* C8: when the extractor of a supported extension raises, at any point,
\* the text is empty, as it is for an unsupported extension; the text has
\* no upper-case letter.
C8_ExtractionDegrades ==
  Extracted =>
    /\ Supported(file.filename) /\ Raises(file) => text = <<>>
    /\ ~Supported(file.filename) => text = <<>>
    /\ \A i \in 1..Len(text) : ~IsUpper(text[i])

\* a PDF whose second page raises after a first, non-empty page
C8_Witness ==
  /\ Extracted
  /\ HasExt(file.filename, PdfExts)
  /\ Len(file.parts) = 2
  /\ file.parts[1] # <<>>
  /\ file.failAt = 2
  /\ text = <<>>

(* ---------------- claims on the symptom matcher ---------------- *)
Recommended == last_call = "recommend_tests"

\* sub is a run of consecutive characters of s
IsSubstring(sub, s) ==
  \E i \in 1..(Len(s) + 1) :
    /\ i + Len(sub) - 1 <= Len(s)
    /\ SubSeq(s, i, i + Len(sub) - 1) = sub

MatchingKeys(s) ==
  {n \in 1..Len(symptom_to_tests) : IsSubstring(symptom_to_tests[n].keyword, s)}

TestsOf(n) ==
  {symptom_to_tests[n].tests[k] : k \in 1..Len(symptom_to_tests[n].tests)}

Elements(q) == {q[k] : k \in 1..Len(q)}

Reverse(q) == [k \in 1..Len(q) |-> q[Len(q) + 1 - k]]

\* C10: the tests returned are the union of the test lists of the keys that
\* are substrings of the lower-cased input, each test once; the collection
\* is the same when the keys are visited in the opposite order, and empty
\* when no key is a substring.
C10_UnionOfMatchingKeys ==
  Recommended =>
    LET s == SymptomsOf(symptoms)
    IN /\ Elements(recommended_tests)
            = UNION {TestsOf(n) : n \in MatchingKeys(s)}
       /\ Len(recommended_tests) = Cardinality(Elements(recommended_tests))
       /\ Elements(RecommendedList(Reverse(symptom_to_tests), s))
            = Elements(recommended_tests)
       /\ MatchingKeys(s) = {} => recommended_tests = <<>>

\* a key and a longer key containing it both match inside a longer input,
\* and their lists share tests
C10_Witness ==
  /\ Recommended
  /\ \E m, n \in MatchingKeys(SymptomsOf(symptoms)) :
       /\ m # n
       /\ IsSubstring(symptom_to_tests[m].keyword, symptom_to_tests[n].keyword)
       /\ symptom_to_tests[n].keyword # SymptomsOf(symptoms)
       /\ TestsOf(m) \cap TestsOf(n) # {}
       /\ TestsOf(m) \cup TestsOf(n) \subseteq Elements(recommended_tests)

(* ---------------- claims on the recommendation ---------------- *)
\* the last upload that passed both checks has been answered
Uploaded == response.code = 200

AbnormalSet == {r.parameter : r \in {r \in Readings : r.status = "Abnormal"}}

Swap(q, i, j) ==
  [k \in 1..Len(q) |-> IF k = i THEN q[j] ELSE IF k = j THEN q[i] ELSE q[k]]

Rotate(q, r) == [k \in 1..Len(q) |-> q[((k + r - 1) % Len(q)) + 1]]

\* the key orders obtained from the table's by exchanging two neighbours,
\* by a rotation or by reversal
KeyOrders ==
  {Swap(doctor_mapping, i, i + 1) : i \in 1..(Len(doctor_mapping) - 1)}
    \cup {Rotate(doctor_mapping, r) : r \in 0..(Len(doctor_mapping) - 1)}
    \cup {Reverse(doctor_mapping)}

JoinedNames(order) ==
  join(<<",", " ">>, [k \in 1..Len(order) |-> DocChars(order[k])])

C6_PrefixedListOrSentinel ==
  Uploaded =>
    IF recommended_doctors # {}
    THEN \E order \in Orders(recommended_doctors) :
           /\ Len(response.doctor_recommendation) > Len(JoinedNames(order))
           /\ endswith(response.doctor_recommendation, JoinedNames(order))
    ELSE response.doctor_recommendation = AllNormal

\* C6 amended: with a specialty recommended, the recommendation is the
\* names of the recommended specialties, each once, in some order, joined
\* by ", " and preceded by nothing; else the sentinel.
C6_ListOrSentinel ==
  Uploaded =>
    IF recommended_doctors # {}
    THEN \E order \in Orders(recommended_doctors) :
           response.doctor_recommendation = JoinedNames(order)
    ELSE response.doctor_recommendation = AllNormal

\* two specialties recommended and joined
C6_Witness ==
  /\ Uploaded
  /\ Cardinality(recommended_doctors) >= 2
  /\ response.doctor_recommendation # AllNormal

NothingRecognised ==
  \A P \in Params : Occurrences(Details(P).chars, text) = {}

\* C7: a text in which no parameter name is followed by a number gives no
\* reading and the all-normal sentinel.
C7_NothingRecognised ==
  Uploaded /\ NothingRecognised =>
    /\ analysis = <<>>
    /\ response.analysis = <<>>
    /\ response.doctor_recommendation = AllNormal

\* a document whose text is not empty and names no parameter
C7_Witness ==
  /\ Uploaded
  /\ text # <<>>
  /\ NothingRecognised
  /\ response.analysis = <<>>
  /\ response.doctor_recommendation = AllNormal

\* the empty text of a failed extraction
C7_WitnessEmpty ==
  /\ Uploaded
  /\ text = <<>>
  /\ Raises(file)
  /\ response.doctor_recommendation = AllNormal

(* ---------------- claims on calls in sequence ---------------- *)
\* C11: a call of analyze_blood_report on the text the preceding analysis
\* ran on returns the reading list that analysis returned, and after every
\* sequence of analyze_blood_report, recommend_tests and upload_report calls
\* reference_ranges, symptom_to_tests and doctor_mapping are as shipped.
C11_IdempotentTablesFixed ==
  /\ tables = ShippedTables
  /\ (Analyzed /\ previous.text = text) => previous.analysis = analysis

\* the example text analysed twice in a row, after a recommendation and an
\* upload
C11_Witness ==
  /\ Analyzed
  /\ previous.text = ExampleText
  /\ text = ExampleText
  /\ Len(analysis) = 2
  /\ recommended_tests # <<>>
  /\ Len(reports) = 1
(* ---------------- claims on analyses in parallel ---------------- *)
\* the reading list, the abnormal list, the specialties and the
\* recommendations of a request served alone, for each text
Alone ==
  [t \in ConcurrentTexts |->
     LET an == AnalyzeFrom(reference_ranges, t, 1)
         rec == RecommendedDoctors(doctor_mapping, Abnormal(an))
     IN [analysis |-> an,
         abnormal |-> Abnormal(an),
         recommended_doctors |-> rec,
         recommendations |->
           {DoctorRecommendation(order) : order \in Orders(rec)}]]

\* C12: in every interleaving of the analyses, the reading list that an
\* analysis returns is the one analyze_blood_report gives alone on its
\* text, its abnormal list and its set of specialties are those computed
\* from that list alone, and the response carries that list and a
\* recommendation that the request alone returns for that text.
C12_Isolation ==
  \A c \in 1..MaxAnalyses :
    /\ calls[c].pc \in {"abnormal", "doctors", "join", "respond"} =>
         locals[Local(c)].analysis = Alone[calls[c].text].analysis
    /\ calls[c].pc \in {"doctors", "join", "respond"} =>
         locals[Local(c)].abnormal = Alone[calls[c].text].abnormal
    /\ calls[c].pc \in {"join", "respond"} =>
         locals[Local(c)].recommended_doctors =
           Alone[calls[c].text].recommended_doctors
    /\ calls[c].pc = "respond" =>
         locals[Local(c)].doctor_recommendation
           \in Alone[calls[c].text].recommendations
    /\ calls[c].pc = "done" =>
         /\ calls[c].result.analysis = Alone[calls[c].text].analysis
         /\ calls[c].result.doctor_recommendation
              \in Alone[calls[c].text].recommendations

\* two analyses of different texts, the second begun while the first was in
\* its loop and finished while the first was still to respond
C12_Witness ==
  /\ calls[1].pc = "respond"
  /\ calls[2].pc = "done"
  /\ calls[1].text = ExampleText
  /\ calls[2].text # ExampleText
  /\ Len(calls[2].result.analysis) = 1
  /\ Len(locals[Local(1)].analysis) = 2
(* ---------------- claims on the shipped tables ---------------- *)
\* the specialties whose parameter list holds the parameter
SpecialtiesOf(param) ==
  {doctor_mapping[m].doc :
     m \in {m \in 1..Len(doctor_mapping) :
              InList(param, doctor_mapping[m].params)}}

\* C13: every key of reference_ranges is in the parameter list of at least
\* one specialty of doctor_mapping, and the recommendation of an upload is
\* the all-normal sentinel exactly when no reading of its analysis is
\* Abnormal.
C13_SentinelIffNoAbnormal ==
  /\ \A n \in 1..Len(reference_ranges) :
       SpecialtiesOf(reference_ranges[n].param) # {}
  /\ Uploaded =>
       (response.doctor_recommendation = AllNormal
          <=> \A k \in 1..Len(response.analysis) :
                response.analysis[k].status # "Abnormal")

\* an upload with an Abnormal reading, answered by the specialties of that
\* reading's parameter
C13_Witness ==
  /\ Uploaded
  /\ \E k \in 1..Len(response.analysis) :
       /\ response.analysis[k].status = "Abnormal"
       /\ recommended_doctors = SpecialtiesOf(response.analysis[k].parameter)
  /\ response.doctor_recommendation # AllNormal
  /\ Len(reports) = 1
(* ---------------- claims on rejected uploads ---------------- *)
\* the step leaves no trace: no file saved, no analysis run, no report stored
NoTrace == UNCHANGED <<uploads, text, analysis, recommended_doctors, reports>>

\* C14: an upload_report request in a session without user_id is answered
\* 401 'Login required', one with user_id but without a file is answered 400
\* 'No file uploaded', and both leave the saved files, the analysis and the
\* stored reports as they were; a report is stored only by an upload_report
\* request with user_id in the session and a file, and carries that user_id.
C14_RejectedWithoutTrace ==
  [][/\ "user_id" \notin DOMAIN session =>
          \A d \in UploadFiles, fs \in FormSymptoms, tk \in Tokens :
            UploadReport(d, fs, tk) =>
              /\ response'.code = 401
              /\ response'.error = "Login required"
              /\ NoTrace
     /\ "user_id" \in DOMAIN session =>
          \A fs \in FormSymptoms, tk \in Tokens :
            UploadReport(NoFile, fs, tk) =>
              /\ response'.code = 400
              /\ response'.error = "No file uploaded"
              /\ NoTrace
     /\ reports' # reports =>
          /\ "user_id" \in DOMAIN session
          /\ file' \in UploadFiles \ {NoFile}
          /\ response'.code = 200
          /\ Len(reports') = Len(reports) + 1
          /\ SubSeq(reports', 1, Len(reports)) = reports
          /\ reports'[Len(reports')].user_id = session["user_id"]]_vars

\* a logged-in user's request without a file, refused with nothing kept
C14_Witness ==
  /\ "user_id" \in DOMAIN session
  /\ response.code = 400
  /\ response.error = "No file uploaded"
  /\ file = NoFile
  /\ reports = <<>>
  /\ DOMAIN uploads = {}
(* ---------------- claims on the admin routes ---------------- *)
\* a step of one of the admin actions
AdminAction ==
  \/ \E e \in AdminEmails, p \in AdminPasswords : CreateAdmin(e, p)
  \/ \E report_id \in 1..MaxReports : AdminDeleteReport(report_id)
  \/ \E user_id \in UserIds : AdminDeleteUser(user_id)
  \/ \E user_id \in UserIds, tp \in TempPasswords :
       AdminResetPassword(user_id, tp)

\* a step of one of the super-admin actions
SuperAction ==
  \/ \E e \in AdminEmails \cup {""}, p \in AdminPasswords :
       SuperCreateAdmin(e, p)
  \/ \E admin_id \in 1..MaxAdmins : SuperDeleteAdmin(admin_id)
  \/ \E admin_id \in 1..MaxAdmins, tp \in TempPasswords :
       SuperResetAdminPassword(admin_id, tp)

\* the keys of the three roles
RoleKeys == {"user_id", "admin_id", "master_verified"}

\* C15: in a session driven by login, admin-login, master-login, logout and
\* master-logout, an admin action changes the stored users, reports or
\* admins only when the session holds admin_id, and a super-admin action
\* changes the stored admins only when the session holds master_verified;
\* logout leaves none of user_id, admin_id and master_verified in the
\* session, master-logout takes master_verified out and leaves every other
\* key as it was.
C15_RoleGuards ==
  [][/\ ("admin_id" \notin DOMAIN session /\ AdminAction) =>
          UNCHANGED <<users, reports, admins>>
     /\ ("master_verified" \notin DOMAIN session /\ SuperAction) =>
          UNCHANGED admins
     /\ Logout => DOMAIN session' \cap RoleKeys = {}
     /\ SuperLogoutMaster =>
          /\ DOMAIN session' = DOMAIN session \ {"master_verified"}
          /\ \A k \in DOMAIN session' : session'[k] = session[k]]_vars

\* a session that held all three roles, after master-logout, with an admin
\* created, the user's password reset and the report deleted
C15_Witness ==
  /\ "user_id" \in DOMAIN session
  /\ "admin_id" \in DOMAIN session
  /\ "master_verified" \notin DOMAIN session
  /\ Len(admins) = 2
  /\ Len(users) = 1
  /\ users[1].password = Hash("tmp1")
  /\ reports = <<>>
  /\ response.code = 200
====
